---------------------------- MODULE Spec2Model ----------------------------
(***************************************************************************)
(* A model of the unraid-file-inventory scanners.                          *)
(*                                                                         *)
(*   - ProgressiveChunkGenerator (progressive_scanner.py): the planner,    *)
(*     modelled as operators computed the way the code computes them.      *)
(*   - ProgressiveScanner (progressive_scanner.py): the orchestrator, its  *)
(*     chunk-processor threads, its adaptive generator thread, the         *)
(*     priority queue (heapq over (priority, chunk) tuples) and the        *)
(*     containers it launches and polls.                                   *)
(*                                                                         *)
(* A path is a sequence of names; a path lies below another one when the   *)
(* other one is a proper prefix of it, which is what the code's            *)
(* startswith(parent.rstrip('/') + '/') test computes on normalised paths. *)
(***************************************************************************)
EXTENDS Integers, Sequences, FiniteSets, TLC

VARIABLES
    tree,               \* the directory tree being scanned (fixed during a behaviour)
    faults,             \* which environment failures may happen in this behaviour
    MAX_CONTAINERS,     \* the module global main() sets from --max-containers
    scanned_dirs,       \* the store's scanned_dirs table: rows [path, mount_point]
    db_file,            \* whether the database file exists on disk
    database_exists,    \* ProgressiveScanner.database_exists (set by __init__)
    scanned_chunks,     \* ProgressiveScanner.scanned_chunks
    processed_paths,    \* ProgressiveChunkGenerator.processed_paths
    sample_cache,       \* QuickDirectoryAnalyzer._sample_cache: path -> estimated_files
    plan_pc,            \* position of the planning driver (SpecPlan)
    cur_plans,          \* the plans the current scanner instance has made
    prev_plans,         \* the plans the previous scanner instance made
    marked              \* paths the driver marked with mark_chunk_scanned

storeVars == <<scanned_dirs, db_file>>
instVars  == <<database_exists, scanned_chunks, processed_paths, sample_cache>>
planVars  == <<plan_pc, cur_plans, prev_plans, marked>>

-----------------------------------------------------------------------------
(* Program constants.                                                      *)

MIN_CHUNK_SIZE_FILES == 1000
DEPTH_LIMIT == 3
\* _is_toplevel_directory_complete: "if subdirs_count > 10"
ToplevelSubdirThreshold == 10
\* generate_adaptive_chunks: "if subdirs_count <= 5"
AdaptiveSubdirThreshold == 5
\* generate_adaptive_chunks: 'priority': 10 + len(new_chunks)
AdaptivePriorityBase == 10
\* quick_sample_directory: the fallback estimate
FallbackEstimate == 50000
\* quick_sample_directory: "file_count * 10 if file_count > 1000"
SampleThreshold == 1000
SampleFactor == 10

-----------------------------------------------------------------------------
(* Bounds of the model.                                                    *)

\* How many synthetic descendants a stored completed set may hold below one
\* directory (enough to pass the threshold of 10).
MaxStoredBelow == 11

-----------------------------------------------------------------------------
(* Paths.                                                                  *)

Range(s) == {s[i] : i \in DOMAIN s}

\* scanned_path.startswith(parent_dir.rstrip('/') + '/') and scanned_path != parent_dir
IsBelow(parent_dir, path) ==
    /\ Len(parent_dir) < Len(path)
    /\ SubSeq(path, 1, Len(parent_dir)) = parent_dir

\* entry.startswith('.')
HiddenNames == {".h"}
IsHidden(name) == name \in HiddenNames

MountName == "M"

-----------------------------------------------------------------------------
(* The planner: ProgressiveChunkGenerator.                                 *)

Chunk(path, type, priority, estimated_files) ==
    [path |-> path, mount_name |-> MountName, type |-> type,
     priority |-> priority, estimated_files |-> estimated_files]

ChunkPaths(chunks) == {chunks[i].path : i \in DOMAIN chunks}

CountScannedSubdirectories(parent_dir, scanned) ==
    Cardinality({s \in scanned : IsBelow(parent_dir, s)})

\* A planner that forgets the resume check.
IsToplevelDirectoryComplete_NeverSkips(dir_path, scanned) ==
    FALSE

IsToplevelDirectoryComplete(dir_path, scanned) ==
    /\ dir_path \in scanned
    /\ ~(CountScannedSubdirectories(dir_path, scanned) > ToplevelSubdirThreshold)

\* os.listdir(root_path) filtered by isdir and not entry.startswith('.')
TopLevelDirectories(t) ==
    SelectSeq(t.dirs, LAMBDA p : /\ Len(p) = Len(t.root) + 1
                                 /\ IsBelow(t.root, p)
                                 /\ ~IsHidden(p[Len(p)]))

RECURSIVE InitialLoop(_, _, _)
InitialLoop(directories, i, scanned) ==
    IF i > Len(directories) THEN <<>>
    ELSE IF IsToplevelDirectoryComplete(directories[i], scanned)
         THEN InitialLoop(directories, i + 1, scanned)
         ELSE <<Chunk(directories[i], "toplevel", i, 0)>>
                  \o InitialLoop(directories, i + 1, scanned)

\* generate_initial_chunks: the chunks and the processed_paths it leaves.
GenerateInitialChunks(t, scanned, processed) ==
    IF ~t.listable
    THEN \* os.listdir raised: the emergency fallback
         [chunks |-> IF t.root \notin scanned
                     THEN <<Chunk(t.root, "emergency", 1, 0)>> ELSE <<>>,
          processed |-> processed]
    ELSE LET directories == TopLevelDirectories(t) IN
         IF directories = <<>>
         THEN [chunks |-> IF t.root \in scanned
                          THEN <<>> ELSE <<Chunk(t.root, "root", 1, 0)>>,
               processed |-> processed]
         ELSE [chunks |-> InitialLoop(directories, 1, scanned),
               processed |-> processed \cup {t.root} \cup Range(directories)]

\* quick_sample_directory: the estimate for a path (the cache is consulted
\* first; a failed probe gives the fallback estimate, which is cached too).
SampleEstimate(t, path, cache, failing) ==
    IF path \in DOMAIN cache THEN cache[path]
    ELSE IF path \in failing THEN FallbackEstimate
    ELSE IF t.count[path] > SampleThreshold THEN t.count[path] * SampleFactor
    ELSE t.count[path]

\* os.walk(root_path) pruned by dirs.clear() at depth >= DEPTH_LIMIT: the
\* directories it yields, in order.  An unlistable root yields nothing.
WalkOrder(t) ==
    IF ~t.listable THEN <<>>
    ELSE SelectSeq(t.dirs, LAMBDA p : Len(p) - Len(t.root) <= DEPTH_LIMIT)

\* One iteration state of generate_adaptive_chunks.
RECURSIVE AdaptiveLoop(_, _, _, _, _, _, _, _)
AdaptiveLoop(t, walk, i, acc, scanned, processed, cache, arg) ==
    LET result == [chunks |-> acc, scanned |-> scanned,
                   processed |-> processed, cache |-> cache]
    IN
    IF i > Len(walk) THEN result
    ELSE
    LET root  == walk[i]
        depth == Len(root) - Len(t.root)
        cnt   == CountScannedSubdirectories(root, scanned)
        skip  == root \in scanned /\ cnt <= AdaptiveSubdirThreshold
        \* scanned_chunks.discard(root)
        scanned1 == IF root \in scanned /\ ~skip THEN scanned \ {root} ELSE scanned
        est   == SampleEstimate(t, root, cache, arg.failing)
        cache1 == IF root \in DOMAIN cache THEN cache
                  ELSE [p \in DOMAIN cache \cup {root} |->
                           IF p = root THEN est ELSE cache[p]]
    IN
    IF depth >= DEPTH_LIMIT
    THEN AdaptiveLoop(t, walk, i + 1, acc, scanned, processed, cache, arg)
    ELSE IF skip
    THEN AdaptiveLoop(t, walk, i + 1, acc, scanned, processed, cache, arg)
    ELSE IF root \in processed
    THEN AdaptiveLoop(t, walk, i + 1, acc, scanned1, processed, cache, arg)
    ELSE IF est > MIN_CHUNK_SIZE_FILES
    THEN LET acc1 == Append(acc, Chunk(root, "adaptive",
                                       AdaptivePriorityBase + Len(acc), est))
         IN IF Len(acc1) >= arg.max_chunks
            THEN [chunks |-> acc1, scanned |-> scanned1,
                  processed |-> processed \cup {root}, cache |-> cache1]
            ELSE AdaptiveLoop(t, walk, i + 1, acc1, scanned1,
                              processed \cup {root}, cache1, arg)
    ELSE AdaptiveLoop(t, walk, i + 1, acc, scanned1, processed, cache1, arg)

\* generate_adaptive_chunks: the chunks, and the scanned set, processed_paths
\* and sample cache it leaves.
GenerateAdaptiveChunks(t, scanned, processed, cache, max_chunks, failing) ==
    AdaptiveLoop(t, WalkOrder(t), 1, <<>>, scanned, processed, cache,
                 [max_chunks |-> max_chunks, failing |-> failing])


-----------------------------------------------------------------------------
(* The checkpoint store: the scanned_dirs table (path is the primary key). *)

\* get_scanned_chunks: SELECT path FROM scanned_dirs WHERE mount_point = ?
\* (a store that cannot be read gives the empty set).
GetScannedChunks(rows, mount_name, read_ok) ==
    IF read_ok THEN {r.path : r \in {x \in rows : x.mount_point = mount_name}}
    ELSE {}

\* A mark_chunk_scanned that inserts without replacing.
MarkChunkScanned_Inserts(rows, chunk_path, mount_name, write_ok) ==
    IF write_ok THEN rows \cup {[path |-> chunk_path, mount_point |-> mount_name]}
    ELSE rows

\* mark_chunk_scanned: INSERT OR REPLACE INTO scanned_dirs; a store error is
\* logged and nothing is written.
MarkChunkScanned(rows, chunk_path, mount_name, write_ok) ==
    IF write_ok
    THEN {r \in rows : r.path # chunk_path}
             \cup {[path |-> chunk_path, mount_point |-> mount_name]}
    ELSE rows

\* A check_existing_data that never populates the completed set.
CheckExistingData_NeverLoads(existed, rows, files_for_mount, mount_name, read_ok, current) ==
    current

\* check_existing_data: the scanned_chunks it leaves.  files_for_mount is
\* whether the files table holds a row of the mount.
\* A check that looks at the store whether or not the database file
\* existed when the scanner was constructed.
CheckExistingData_AnyDatabase(existed, rows, files_for_mount, mount_name, read_ok, current) ==
    IF ~read_ok THEN current
    ELSE IF (\E r \in rows : r.mount_point = mount_name) \/ files_for_mount
         THEN GetScannedChunks(rows, mount_name, read_ok)
         ELSE current

CheckExistingData(existed, rows, files_for_mount, mount_name, read_ok, current) ==
    IF ~existed THEN current
    ELSE IF ~read_ok THEN current
    ELSE IF (\E r \in rows : r.mount_point = mount_name) \/ files_for_mount
         THEN GetScannedChunks(rows, mount_name, read_ok)
         ELSE current

-----------------------------------------------------------------------------
(* The pending queue: queue.PriorityQueue over (priority, chunk) tuples,   *)
(* a binary heap kept in a list by heapq (the list is 1-based here: the    *)
(* code's position pos is index pos + 1).                                  *)

Item(chunk) == [priority |-> chunk.priority, chunk |-> chunk]

\* (priority, chunk) < (priority, chunk): tuples compare their first
\* differing element; two different chunk dicts of equal priority are
\* compared with <, which raises TypeError.
TupleLess(a, b) ==
    IF a.priority # b.priority THEN [ok |-> TRUE, lt |-> a.priority < b.priority]
    ELSE IF a.chunk = b.chunk THEN [ok |-> TRUE, lt |-> FALSE]
    ELSE [ok |-> FALSE, lt |-> FALSE]

Swap(heap, i, j) == [heap EXCEPT ![i] = heap[j], ![j] = heap[i]]

\* _heapq siftdown(heap, startpos, pos): swaps the new item with its parents
\* in place; a failed comparison leaves the list as it is at that point.
RECURSIVE SiftDown(_, _, _)
SiftDown(heap, startidx, idx) ==
    IF idx <= startidx THEN [ok |-> TRUE, heap |-> heap]
    ELSE LET parentidx == idx \div 2
             cmp == TupleLess(heap[idx], heap[parentidx])
         IN IF ~cmp.ok THEN [ok |-> FALSE, heap |-> heap]
            ELSE IF ~cmp.lt THEN [ok |-> TRUE, heap |-> heap]
            ELSE SiftDown(Swap(heap, idx, parentidx), startidx, parentidx)

\* _heapq siftup(heap, pos): moves the smaller child up until a leaf is
\* reached, then sifts the item down from there.
RECURSIVE SiftUp(_, _, _)
SiftUp(heap, startidx, idx) ==
    LET childidx == 2 * idx IN
    IF childidx > Len(heap) THEN SiftDown(heap, startidx, idx)
    ELSE IF childidx + 1 <= Len(heap)
    THEN LET cmp == TupleLess(heap[childidx], heap[childidx + 1])
         IN IF ~cmp.ok THEN [ok |-> FALSE, heap |-> heap]
            ELSE LET c == IF cmp.lt THEN childidx ELSE childidx + 1
                 IN SiftUp(Swap(heap, idx, c), startidx, c)
    ELSE SiftUp(Swap(heap, idx, childidx), startidx, childidx)

\* heapq.heappush(heap, item): append, then sift down from the end.
HeapPush(heap, item) ==
    SiftDown(Append(heap, item), 1, Len(heap) + 1)

\* heapq.heappop(heap): the last item replaces the first one and is sifted
\* up; when a comparison raises, the item that was to be returned is gone.
HeapPop(heap) ==
    LET n == Len(heap)
        lastelt == heap[n]
        rest == SubSeq(heap, 1, n - 1)
    IN IF n = 1 THEN [ok |-> TRUE, item |-> lastelt, heap |-> <<>>]
       ELSE LET r == SiftUp([rest EXCEPT ![1] = lastelt], 1, 1)
            IN [ok |-> r.ok, item |-> heap[1], heap |-> r.heap]

QueuePaths(heap) == {heap[i].chunk.path : i \in DOMAIN heap}

-----------------------------------------------------------------------------
(* The orchestrator: ProgressiveScanner.scan_mount_point, its               *)
(* chunk-processor threads, its adaptive generator thread, and the         *)
(* containers and worker processes of the environment.                     *)

VARIABLES
    main_pc,            \* scan_mount_point: "init", "running", "returned", "raised"
    pending_chunks,     \* PriorityQueue.queue: the heap list of (priority, chunk)
    unfinished_tasks,   \* PriorityQueue.unfinished_tasks
    active_containers,  \* container id -> the chunk it was started for
    completed_chunks,   \* ProgressiveScanner.completed_chunks
    failed_chunks,      \* ProgressiveScanner.failed_chunks
    workers,            \* the chunk-processor threads: [pc, chunk, cid]
    gen_pc,             \* the adaptive generator thread: "check", "put", "done"
    new_chunks,         \* the generator's chunks not put on the queue yet
    containers,         \* every docker run so far: container id -> its record
    files,              \* the store's files table: directories whose files are recorded
    kills,              \* how often the run was killed and started again
    received_signal     \* the signal the orchestrator process received: "none",
                        \* "SIGINT" or "SIGTERM"

orchVars == <<main_pc, pending_chunks, unfinished_tasks, active_containers,
              completed_chunks, failed_chunks, workers, gen_pc, new_chunks,
              containers, files, kills, received_signal>>

(* The scan worker: nas_scanner_hp.py, run once per chunk in a container,  *)
(* the chunk's directory tree, and the store's files table.                *)

VARIABLES
    fs,                 \* the chunk's directory tree: [exists, entries]
    scan_pc,            \* main()/Scanner.scan: "main", "collect", "map", "results",
                        \* "final", "exited"
    shutdown,           \* Scanner.shutdown (set by _signal_handler)
    directories,        \* Scanner.scan: the directories _collect_directories found
    results,            \* Scanner.scan: pool.map's list of file lists
    result_idx,         \* Scanner.scan: position of `for file_list in results`
    batch,              \* Scanner.scan: the records not yet handed to _save_batch
    files_table,        \* the store's files table: a set of rows
    files_scanned,      \* Scanner.files_scanned
    save_errors,        \* how often save_files logged "Database save failed"
    exit_status,        \* the worker process's exit status, "none" while it runs
    scan_run,           \* the number of the worker process (clock of scan_time)
    io_errors           \* what fails to be read during this worker process:
                        \* [walk, scandir, stat, read], sets of paths

scanVars == <<fs, scan_pc, shutdown, directories, results, result_idx, batch,
              files_table, files_scanned, save_errors, exit_status, scan_run,
              io_errors>>

(* The size-based orchestrator: SmartScanner.scan_mount_point              *)
(* (smart_scanner.py).  It shares the names of its fields                  *)
(* (active_containers, completed_chunks, failed_chunks) with the           *)
(* progressive orchestrator.                                               *)

VARIABLES
    skip_analysis,      \* SmartScanner.skip_analysis (--fast-start)
    smart_chunks,       \* scan_mount_point: chunks, the plan
    futures,            \* scan_mount_point: the state of the work item of each chunk
    size_probes         \* the paths get_directory_size was called for

smartVars == <<skip_analysis, smart_chunks, futures, size_probes>>

(* Functions looked at on their own: their arguments and their results.    *)

VARIABLES
    calc                \* [pc, ...]: the arguments, then the results too

NoCalc == [pc |-> "none"]

SmartIdle ==
    /\ skip_analysis = FALSE
    /\ smart_chunks = <<>>
    /\ futures = <<>>
    /\ size_probes = {}

\* No worker process is looked at: the behaviour is about the orchestrator.
NoFs == [exists |-> FALSE, entries |-> <<>>]
NoFailure == [walk |-> {}, scandir |-> {}, stat |-> {}, read |-> {}]

ScanIdle ==
    /\ fs = NoFs
    /\ scan_pc = "idle"
    /\ shutdown = FALSE
    /\ directories = <<>>
    /\ results = <<>>
    /\ result_idx = 0
    /\ batch = <<>>
    /\ files_table = {}
    /\ files_scanned = 0
    /\ save_errors = 0
    /\ exit_status = "none"
    /\ scan_run = 0
    /\ io_errors = NoFailure

\* _adaptive_chunk_generator: generate_adaptive_chunks(..., max_chunks=5)
AdaptiveMaxChunks == 5
\* _adaptive_chunk_generator: "if self.pending_chunks.qsize() < 2"
QueueLowMark == 2

\* The retry bound the specification names; progressive_scanner.py has no
\* retry logic and no such constant.
MAX_RETRIES == 3

\* Nothing in progressive_scanner.py assigns _shutdown_requested after
\* __init__ set it to False.
shutdown_requested == FALSE

Threads == 1..MAX_CONTAINERS

NoChunk == [path |-> <<>>, mount_name |-> "", type |-> "none",
            priority |-> 0, estimated_files |-> 0]
\* Container ids are opaque to the code; here the id of a docker run is the
\* chunk path and the number of the run among the runs for that path.
NoId == <<<<>>, 0>>
NewId(path) == <<path, Cardinality({c \in DOMAIN containers : c[1] = path}) + 1>>

IdleWorker == [pc |-> "idle", chunk |-> NoChunk, cid |-> NoId]

\* Strings are sequences of characters.  str.isalnum() on one character:
AlnumChars ==
    {"a", "b", "c", "d", "e", "f", "g", "h", "i", "j", "k", "l", "m", "n", "o", "p",
     "q", "r", "s", "t", "u", "v", "w", "x", "y", "z",
     "0", "1", "2", "3", "4", "5", "6", "7", "8", "9"}

\* str.replace(old, new) for one character
Replace(str, old, new) == [i \in 1..Len(str) |-> IF str[i] = old THEN new ELSE str[i]]

\* str[-n:]
LastChars(str, n) == IF Len(str) <= n THEN str ELSE SubSeq(str, Len(str) - n + 1, Len(str))

\* ''.join(c for c in container_name if c.isalnum() or c in '-_')
Sanitize(str) == SelectSeq(str, LAMBDA c : c \in AlnumChars \/ c \in {"-", "_"})

\* start_container: the container name of a chunk path; prefix and tail
\* are "progressive-scan-" and 40, or "smart-scan-" and 50.
ContainerNameOf(prefix, path, tail) ==
    Sanitize(prefix \o LastChars(Replace(Replace(path, "/", "_"), " ", "_"), tail))

ProgressivePrefix ==
    <<"p", "r", "o", "g", "r", "e", "s", "s", "i", "v", "e", "-", "s", "c", "a", "n", "-">>
SmartPrefix == <<"s", "m", "a", "r", "t", "-", "s", "c", "a", "n", "-">>
ProgressiveNameTail == 40
SmartNameTail == 50

\* The spelling of the directory names of the model's trees.
NameChars ==
    ("m" :> <<"m">>) @@ ("a" :> <<"a">>) @@ ("b" :> <<"b">>) @@ ("d" :> <<"d">>)
    @@ ("x" :> <<"x">>) @@ ("y" :> <<"y">>) @@ (".h" :> <<".", "h">>)
    @@ ("x0" :> <<"x", "0">>)
    @@ ("x1" :> <<"x", "1">>)
    @@ ("x2" :> <<"x", "2">>)
    @@ ("x3" :> <<"x", "3">>)
    @@ ("x4" :> <<"x", "4">>)
    @@ ("x5" :> <<"x", "5">>)
    @@ ("x6" :> <<"x", "6">>)
    @@ ("x7" :> <<"x", "7">>)
    @@ ("x8" :> <<"x", "8">>)
    @@ ("x9" :> <<"x", "9">>)

\* os.path.join: the path of a directory as a string
RECURSIVE PathString(_)
PathString(path) ==
    IF path = <<>> THEN <<>>
    ELSE PathString(SubSeq(path, 1, Len(path) - 1)) \o <<"/">> \o NameChars[path[Len(path)]]

\* ProgressiveScanner.start_container: container_name
ContainerName(path) ==
    ContainerNameOf(ProgressivePrefix, PathString(path), ProgressiveNameTail)

\* docker inspect --format '{{.State.ExitCode}}' prints the decimal code.
FormatExitCode(code) ==
    CASE code = 0 -> "0" [] code = 1 -> "1" [] OTHER -> "137"

ParseInt(str) ==
    CASE str = "0" -> 0 [] str = "1" -> 1 [] OTHER -> 137

\* _wait_for_container: int(stdout.strip()) if stdout.strip() else 1
ExitCodeOf(stdout) ==
    IF stdout # "" THEN ParseInt(stdout) ELSE 1

\* PriorityQueue.task_done: raises ValueError when unfinished_tasks is 0.
TaskDone(n) == IF n <= 0 THEN [ok |-> FALSE, n |-> n] ELSE [ok |-> TRUE, n |-> n - 1]

Running == {c \in DOMAIN containers : containers[c].status = "running"}

\* The directories a worker started on path walks (os.walk), in order.
SubtreeSeq(t, path) ==
    SelectSeq(t.dirs, LAMBDA d : d = path \/ IsBelow(path, d))

\* What a worker has recorded when it stops part-way: the directories are
\* saved in walk order.
Prefixes(seq) == {Range(SubSeq(seq, 1, k)) : k \in 0..Len(seq)}

\* ProgressiveScanner.__init__: the state tracking and the work queue.
OrchIdle ==
    /\ main_pc = "init"
    /\ pending_chunks = <<>>
    /\ unfinished_tasks = 0
    /\ active_containers = [c \in {} |-> NoChunk]
    /\ completed_chunks = 0
    /\ failed_chunks = 0
    /\ workers = [i \in Threads |-> IdleWorker]
    /\ gen_pc = "check"
    /\ new_chunks = <<>>
    /\ containers = [c \in {} |-> 0]
    /\ kills = 0
    /\ received_signal = "none"

\* A new process: main() constructs a new ProgressiveScanner.
OrchReset ==
    /\ main_pc' = "init"
    /\ pending_chunks' = <<>>
    /\ unfinished_tasks' = 0
    /\ active_containers' = [c \in {} |-> NoChunk]
    /\ completed_chunks' = 0
    /\ failed_chunks' = 0
    /\ workers' = [i \in Threads |-> IdleWorker]
    /\ gen_pc' = "check"
    /\ new_chunks' = <<>>
    /\ received_signal' = "none"
    /\ database_exists' = db_file
    /\ scanned_chunks' = {}
    /\ processed_paths' = {}
    /\ sample_cache' = [p \in {} |-> 0]

\* The outcomes of a store operation.
StoreOutcomes == IF "store" \in faults THEN BOOLEAN ELSE {TRUE}

RECURSIVE PutAll(_, _)
PutAll(heap, chunks) ==
    IF chunks = <<>> THEN [ok |-> TRUE, heap |-> heap]
    ELSE LET r == HeapPush(heap, Item(Head(chunks)))
         IN IF r.ok THEN PutAll(r.heap, Tail(chunks)) ELSE r

\* scan_mount_point up to the submission of the threads: validation fails.
ScanRaise ==
    /\ main_pc = "init"
    /\ ~tree.listable
    /\ main_pc' = "raised"
    /\ UNCHANGED <<tree, faults, MAX_CONTAINERS, scanVars, smartVars, calc, storeVars, instVars, planVars, received_signal, pending_chunks,
                   unfinished_tasks, active_containers, completed_chunks,
                   failed_chunks, workers, gen_pc, new_chunks, containers,
                   files, kills>>

\* scan_mount_point up to the submission of the threads: validation,
\* create_scan_database, check_existing_data, generate_initial_chunks and
\* the puts of the initial chunks.
\* What one planning call was given and what it returned.
PlanRecord(max_chunks, chunks) ==
    [made |-> TRUE, max_chunks |-> max_chunks,
     loaded |-> scanned_chunks,
     store |-> GetScannedChunks(scanned_dirs, MountName, TRUE),
     read_ok |-> plan_pc.read_ok,
     chunks |-> chunks]

ScanStart ==
    /\ main_pc = "init"
    /\ tree.listable
    /\ \E read_ok \in StoreOutcomes :
       \E list_ok \in (IF "listing" \in faults THEN BOOLEAN ELSE {TRUE}) :
          LET loaded == CheckExistingData(database_exists, scanned_dirs, files # {},
                                          MountName, read_ok, scanned_chunks)
              g == GenerateInitialChunks([tree EXCEPT !.listable = list_ok],
                                         loaded, processed_paths)
              q == PutAll(pending_chunks, g.chunks)
          IN /\ scanned_chunks' = loaded
             /\ processed_paths' = g.processed
             /\ pending_chunks' = q.heap
             /\ unfinished_tasks' = IF q.ok THEN Len(g.chunks) ELSE unfinished_tasks
             /\ main_pc' = IF q.ok THEN "running" ELSE "raised"
             /\ cur_plans' = [cur_plans EXCEPT !.initial = PlanRecord(0, g.chunks)]
    /\ db_file' = TRUE
    /\ UNCHANGED <<tree, faults, MAX_CONTAINERS, scanVars, smartVars, calc, scanned_dirs, database_exists, sample_cache,
                   plan_pc, prev_plans, marked, received_signal, active_containers, completed_chunks, failed_chunks,
                   workers, gen_pc, new_chunks, containers, files, kills>>

\* _chunk_processor_worker: pending_chunks.get(timeout=10).  An empty queue
\* makes the thread try again; a comparison that raises inside heappop
\* ends the thread.
GetChunk(i) ==
    /\ main_pc = "running"
    /\ workers[i].pc = "idle"
    /\ ~shutdown_requested
    /\ pending_chunks # <<>>
    /\ LET r == HeapPop(pending_chunks)
       IN /\ pending_chunks' = r.heap
          /\ workers' = [workers EXCEPT ![i] =
                            IF r.ok THEN [pc |-> "start", chunk |-> r.item.chunk, cid |-> NoId]
                            ELSE [pc |-> "done", chunk |-> NoChunk, cid |-> NoId]]
    /\ UNCHANGED <<tree, faults, MAX_CONTAINERS, scanVars, smartVars, calc, storeVars, instVars, planVars, received_signal, main_pc,
                   unfinished_tasks, active_containers, completed_chunks,
                   failed_chunks, gen_pc, new_chunks, containers, files, kills>>

\* The thread after one chunk: task_done(), then the next iteration.
AfterTask(i) ==
    LET t == TaskDone(unfinished_tasks)
    IN /\ unfinished_tasks' = t.n
       /\ workers' = [workers EXCEPT ![i] =
                         [pc |-> IF t.ok THEN "idle" ELSE "done",
                          chunk |-> NoChunk, cid |-> NoId]]

Launch(chunk, status, result) ==
    [c \in DOMAIN containers \cup {NewId(chunk.path)} |->
        IF c = NewId(chunk.path)
        THEN [path |-> chunk.path, mount_name |-> chunk.mount_name, run |-> kills,
              status |-> status, exit_code |-> 0, result |-> result]
        ELSE containers[c]]

\* _chunk_processor_worker: start_container(chunk).  docker run fails when a
\* container of the same name exists, and may fail for other reasons.
StartContainer(i) ==
    /\ workers[i].pc = "start"
    /\ LET chunk == workers[i].chunk
           name_taken == \E c \in Running :
                            ContainerName(containers[c].path) = ContainerName(chunk.path)
       IN \E started \in (IF name_taken THEN {FALSE}
                          ELSE IF "launch" \in faults THEN BOOLEAN ELSE {TRUE}) :
             IF started
             THEN /\ containers' = Launch(chunk, "running", "none")
                  /\ active_containers' =
                        [c \in DOMAIN active_containers \cup {NewId(chunk.path)} |->
                            IF c = NewId(chunk.path) THEN chunk
                            ELSE active_containers[c]]
                  /\ workers' = [workers EXCEPT ![i] =
                                    [pc |-> "wait", chunk |-> chunk,
                                     cid |-> NewId(chunk.path)]]
                  /\ UNCHANGED <<failed_chunks, unfinished_tasks>>
             ELSE /\ containers' = Launch(chunk, "failed_to_start", "failed")
                  /\ failed_chunks' = failed_chunks + 1
                  /\ AfterTask(i)
                  /\ UNCHANGED active_containers
    /\ UNCHANGED <<tree, faults, MAX_CONTAINERS, scanVars, smartVars, calc, storeVars, instVars, planVars, received_signal, main_pc,
                   pending_chunks, completed_chunks, gen_pc, new_chunks, files, kills>>

\* What one iteration of _wait_for_container sees.  "gone": docker ps prints
\* nothing, because the container no longer runs or because the command
\* failed; "raise": subprocess.run raises.  While docker ps lists the
\* container, the thread sleeps and polls again.
PollOutcomes(c) ==
    (IF containers[c].status = "exited" \/ "poll" \in faults THEN {"gone"} ELSE {})
    \cup (IF "poll_raise" \in faults THEN {"raise"} ELSE {})

\* The output of docker inspect --format '{{.State.ExitCode}}': the exit
\* code (0 for a container that still runs), or nothing when the command
\* fails or the container (run with --rm) has been removed already.
InspectOutputs(c) ==
    {FormatExitCode(containers[c].exit_code)}
        \cup (IF "inspect" \in faults THEN {""} ELSE {})

\* _wait_for_container(container_id) from the iteration that ends the wait,
\* followed by _chunk_processor_worker's task_done().
PollContainer(i) ==
    /\ workers[i].pc = "wait"
    /\ ~shutdown_requested
    /\ LET c == workers[i].cid
           known == c \in DOMAIN active_containers
           chunk == IF known THEN active_containers[c] ELSE NoChunk
       IN \E poll \in PollOutcomes(c) :
             IF poll = "raise"
             THEN /\ containers' = [containers EXCEPT ![c].result = "error"]
                  /\ UNCHANGED <<active_containers, completed_chunks, failed_chunks,
                                 scanned_dirs, scanned_chunks>>
             ELSE \E stdout \in InspectOutputs(c) :
                  \E write_ok \in StoreOutcomes :
                     LET exit_code == ExitCodeOf(stdout) IN
                     /\ IF exit_code = 0
                        THEN /\ completed_chunks' = completed_chunks + 1
                             /\ scanned_dirs' =
                                   IF known
                                   THEN MarkChunkScanned(scanned_dirs, chunk.path,
                                                         chunk.mount_name, write_ok)
                                   ELSE scanned_dirs
                             /\ scanned_chunks' =
                                   IF known THEN scanned_chunks \cup {chunk.path}
                                   ELSE scanned_chunks
                             /\ containers' = [containers EXCEPT ![c].result = "completed"]
                             /\ UNCHANGED failed_chunks
                        ELSE /\ failed_chunks' = failed_chunks + 1
                             /\ containers' = [containers EXCEPT ![c].result = "failed"]
                             /\ UNCHANGED <<completed_chunks, scanned_dirs, scanned_chunks>>
                     /\ active_containers' =
                           [x \in DOMAIN active_containers \ {c} |-> active_containers[x]]
    /\ AfterTask(i)
    /\ UNCHANGED <<tree, faults, MAX_CONTAINERS, scanVars, smartVars, calc, db_file, database_exists, processed_paths,
                   sample_cache, planVars, received_signal, main_pc, pending_chunks, gen_pc,
                   new_chunks, files, kills>>

\* _adaptive_chunk_generator: one evaluation of the loop condition and of
\* the loop body up to the puts (the sleeps change nothing).
GenCheck ==
    /\ main_pc = "running"
    /\ gen_pc = "check"
    /\ IF shutdown_requested
          \/ (DOMAIN active_containers = {} /\ pending_chunks = <<>>)
       THEN /\ gen_pc' = "done"
            /\ UNCHANGED <<scanned_chunks, processed_paths, sample_cache, new_chunks,
                           cur_plans>>
       ELSE /\ Len(pending_chunks) < QueueLowMark
            /\ LET g == GenerateAdaptiveChunks(tree, scanned_chunks, processed_paths,
                                               sample_cache, AdaptiveMaxChunks, {})
               IN /\ scanned_chunks' = g.scanned
                  /\ processed_paths' = g.processed
                  /\ sample_cache' = g.cache
                  /\ new_chunks' = g.chunks
                  /\ gen_pc' = IF g.chunks = <<>> THEN "check" ELSE "put"
                  /\ cur_plans' =
                        IF g.chunks = <<>> THEN cur_plans
                        ELSE LET rec == PlanRecord(AdaptiveMaxChunks, g.chunks)
                             IN [cur_plans EXCEPT
                                    !.adaptive_first = IF @.made THEN @ ELSE rec,
                                    !.adaptive_last = rec]
    /\ UNCHANGED <<tree, faults, MAX_CONTAINERS, scanVars, smartVars, calc, storeVars, database_exists, plan_pc, prev_plans, marked, received_signal, main_pc,
                   pending_chunks, unfinished_tasks, active_containers,
                   completed_chunks, failed_chunks, workers, containers, files, kills>>

\* _adaptive_chunk_generator: pending_chunks.put((chunk['priority'], chunk)).
\* A comparison that raises inside heappush leaves the item in the list
\* and ends the generator.
GenPut ==
    /\ gen_pc = "put"
    /\ LET r == HeapPush(pending_chunks, Item(Head(new_chunks)))
       IN /\ pending_chunks' = r.heap
          /\ unfinished_tasks' = IF r.ok THEN unfinished_tasks + 1 ELSE unfinished_tasks
          /\ new_chunks' = IF r.ok THEN Tail(new_chunks) ELSE <<>>
          /\ gen_pc' = IF ~r.ok THEN "done"
                       ELSE IF Tail(new_chunks) = <<>> THEN "check" ELSE "put"
    /\ UNCHANGED <<tree, faults, MAX_CONTAINERS, scanVars, smartVars, calc, storeVars, instVars, planVars, received_signal, main_pc,
                   active_containers, completed_chunks, failed_chunks, workers,
                   containers, files, kills>>

\* scan_mount_point after the executor: every thread has finished.
ScanReturn ==
    /\ main_pc = "running"
    /\ \A i \in Threads : workers[i].pc = "done"
    /\ gen_pc = "done"
    /\ received_signal = "none"
    /\ main_pc' = "returned"
    /\ UNCHANGED <<tree, faults, MAX_CONTAINERS, scanVars, smartVars, calc, storeVars, instVars, planVars, received_signal, pending_chunks,
                   unfinished_tasks, active_containers, completed_chunks,
                   failed_chunks, workers, gen_pc, new_chunks, containers,
                   files, kills>>

\* The exit statuses a worker process may end with: 0, 1 when it fails, 137
\* when it is killed (the containers of a killed run may be killed too).
ExitCodes(c) ==
    {0} \cup (IF "exit1" \in faults THEN {1} ELSE {})
        \cup (IF "kill" \in faults /\ containers[c].run < kills THEN {137} ELSE {})

\* A worker process (nas_scanner_hp.py in its container) ends.  Exit status
\* 0 follows a complete walk of the chunk, unless the worker was told to
\* stop (it then saves what it has and returns normally) or the store
\* failed (save_files swallows the error).
ContainerExit(c) ==
    /\ containers[c].status = "running"
    /\ \E code \in ExitCodes(c) :
       \E written \in (IF code = 0 /\ faults \cap {"store", "sigterm"} = {}
                       THEN {Range(SubtreeSeq(tree, containers[c].path))}
                       ELSE Prefixes(SubtreeSeq(tree, containers[c].path))) :
          /\ containers' = [containers EXCEPT ![c].status = "exited",
                                              ![c].exit_code = code]
          /\ files' = files \cup written
    /\ UNCHANGED <<tree, faults, MAX_CONTAINERS, scanVars, smartVars, calc, storeVars, instVars, planVars, received_signal, main_pc,
                   pending_chunks, unfinished_tasks, active_containers,
                   completed_chunks, failed_chunks, workers, gen_pc, new_chunks, kills>>

-----------------------------------------------------------------------------
(* Directory trees and stored completed sets the behaviours start from.    *)

R == <<"m">>
EmptyCache == [p \in {} |-> 0]

\* The directories a tree may hold, in os.walk order.
UniverseDirs ==
    << R, R \o <<".h">>, R \o <<"a">>, R \o <<"a", "x">>, R \o <<"a", "x", "d">>,
       R \o <<"b">> >>

PrefixClosed(S) ==
    /\ R \in S
    /\ \A p \in S : Len(p) > Len(R) => SubSeq(p, 1, Len(p) - 1) \in S

SmallCount == 5
BigCount == 2000

MakeTreeOf(universe, S, big, listable) ==
    [root |-> R,
     dirs |-> SelectSeq(universe, LAMBDA p : p \in S),
     listable |-> listable,
     count |-> [p \in S |-> IF p \in big THEN BigCount ELSE SmallCount]]

MakeTree(S, big, listable) == MakeTreeOf(UniverseDirs, S, big, listable)

PlanTrees ==
    {MakeTree(S, big, TRUE) :
        S \in {X \in SUBSET Range(UniverseDirs) : PrefixClosed(X)},
        big \in {{}, Range(UniverseDirs)}}
    \cup {MakeTree(Range(UniverseDirs), Range(UniverseDirs), FALSE)}

SynthNames == <<"s01", "s02", "s03", "s04", "s05", "s06",
                "s07", "s08", "s09", "s10", "s11", "s12">>

\* k completed paths directly below dir (they need not exist in the tree:
\* the store keeps what earlier runs wrote).
StoredBelow(dir, k) == {dir \o <<SynthNames[i]>> : i \in 1..k}

StoredSets(t) ==
    LET own == Range(t.dirs) \cap {R, R \o <<"a">>, R \o <<"a", "x">>}
    IN {base \cup extra :
           base \in SUBSET own,
           extra \in {{}} \cup {StoredBelow(d, AdaptiveSubdirThreshold + 1) :
                                   d \in own \ {R}}
                          \cup {StoredBelow(d, MaxStoredBelow) :
                                   d \in own \cap {R \o <<"a">>}}}

-----------------------------------------------------------------------------
(* The planning driver: what test_resume_capability.py and scan_mount_point *)
(* do around the planner: construct a scanner, create the database, load   *)
(* the completed set, plan, mark chunks as scanned, and start over with a  *)
(* new scanner instance over the same database.                            *)

MaxInstances == 2
MaxAdaptiveCalls == 2

NoPlan == [made |-> FALSE]
NoPlans == [initial |-> NoPlan, adaptive_first |-> NoPlan, adaptive_last |-> NoPlan]

PlanInit ==
    /\ tree \in PlanTrees
    /\ faults = {"store"}
    /\ MAX_CONTAINERS = 1
    /\ \E stored \in StoredSets(tree) :
          /\ scanned_dirs = {[path |-> p, mount_point |-> MountName] : p \in stored}
          /\ db_file = (stored # {})
    /\ database_exists = FALSE
    /\ scanned_chunks = {}
    /\ processed_paths = {}
    /\ sample_cache = EmptyCache
    /\ plan_pc = [at |-> "new", inst |-> 0, adaptive |-> 0, read_ok |-> TRUE]
    /\ cur_plans = NoPlans
    /\ prev_plans = NoPlans
    /\ marked = {}
    /\ OrchIdle
    /\ files = {}
    /\ ScanIdle
    /\ SmartIdle
    /\ calc = NoCalc

\* ProgressiveScanner.__init__ followed by create_scan_database.
NewScanner ==
    /\ plan_pc.at \in {"new", "planned"}
    /\ plan_pc.inst < MaxInstances
    /\ database_exists' = db_file
    /\ scanned_chunks' = {}
    /\ processed_paths' = {}
    /\ sample_cache' = EmptyCache
    /\ db_file' = TRUE
    /\ plan_pc' = [at |-> "check", inst |-> plan_pc.inst + 1, adaptive |-> 0,
                   read_ok |-> TRUE]
    /\ prev_plans' = cur_plans
    /\ cur_plans' = NoPlans
    /\ UNCHANGED <<tree, faults, MAX_CONTAINERS, scanVars, smartVars, calc, scanned_dirs, marked>>
    /\ UNCHANGED orchVars

\* check_existing_data(mount_name)
DoCheckExistingData ==
    /\ plan_pc.at = "check"
    /\ \E read_ok \in (IF "store" \in faults THEN BOOLEAN ELSE {TRUE}) :
          /\ scanned_chunks' = CheckExistingData(database_exists, scanned_dirs, FALSE,
                                                 MountName, read_ok, scanned_chunks)
          /\ plan_pc' = [plan_pc EXCEPT !.at = "plan", !.read_ok = read_ok]
    /\ UNCHANGED <<tree, faults, MAX_CONTAINERS, scanVars, smartVars, calc, storeVars, database_exists, processed_paths,
                   sample_cache, cur_plans, prev_plans, marked>>
    /\ UNCHANGED orchVars

\* chunk_generator.generate_initial_chunks(root, mount_name, scanner.scanned_chunks)
PlanInitial ==
    /\ plan_pc.at = "plan"
    /\ LET g == GenerateInitialChunks(tree, scanned_chunks, processed_paths)
       IN /\ processed_paths' = g.processed
          /\ cur_plans' = [cur_plans EXCEPT !.initial = PlanRecord(0, g.chunks)]
    /\ plan_pc' = [plan_pc EXCEPT !.at = "planned"]
    /\ UNCHANGED <<tree, faults, MAX_CONTAINERS, scanVars, smartVars, calc, storeVars, database_exists, scanned_chunks,
                   sample_cache, prev_plans, marked>>
    /\ UNCHANGED orchVars

\* The values of max_chunks the calls are made with.
MaxChunksValues == {0, 1, AdaptiveMaxChunks}

\* chunk_generator.generate_adaptive_chunks(root, mount_name,
\*                                          scanner.scanned_chunks, max_chunks)
PlanAdaptive ==
    /\ plan_pc.at = "planned"
    /\ plan_pc.adaptive < MaxAdaptiveCalls
    /\ \E max_chunks \in MaxChunksValues :
          LET g == GenerateAdaptiveChunks(tree, scanned_chunks, processed_paths,
                                          sample_cache, max_chunks, {})
              rec == PlanRecord(max_chunks, g.chunks)
          IN /\ scanned_chunks' = g.scanned
             /\ processed_paths' = g.processed
             /\ sample_cache' = g.cache
             /\ cur_plans' = [cur_plans EXCEPT
                                 !.adaptive_first = IF plan_pc.adaptive = 0 THEN rec ELSE @,
                                 !.adaptive_last = rec]
    /\ plan_pc' = [plan_pc EXCEPT !.adaptive = @ + 1]
    /\ UNCHANGED <<tree, faults, MAX_CONTAINERS, scanVars, smartVars, calc, storeVars, database_exists, prev_plans, marked>>
    /\ UNCHANGED orchVars

\* scanner.mark_chunk_scanned(chunk['path'], mount_name) for a chunk of the
\* first instance's plan over a fresh store
MarkPlanned ==
    /\ plan_pc.at = "planned"
    /\ plan_pc.inst = 1
    /\ cur_plans.initial.made
    /\ cur_plans.initial.store = {}
    /\ \E i \in DOMAIN cur_plans.initial.chunks :
       \E write_ok \in (IF "store" \in faults THEN BOOLEAN ELSE {TRUE}) :
          /\ cur_plans.initial.chunks[i].path \notin marked
          /\ scanned_dirs' = MarkChunkScanned(scanned_dirs,
                                              cur_plans.initial.chunks[i].path,
                                              MountName, write_ok)
          /\ marked' = IF write_ok
                       THEN marked \cup {cur_plans.initial.chunks[i].path}
                       ELSE marked
    /\ UNCHANGED <<tree, faults, MAX_CONTAINERS, scanVars, smartVars, calc, db_file, instVars, plan_pc, cur_plans, prev_plans>>
    /\ UNCHANGED orchVars

PlanNext ==
    \/ NewScanner
    \/ DoCheckExistingData
    \/ PlanInitial
    \/ PlanAdaptive
    \/ MarkPlanned

-----------------------------------------------------------------------------
(* Runs of the orchestrator: the trees, environments and stores they start *)
(* from.                                                                   *)

MaxKills == 1
\* The largest --max-containers of the runs.
MaxThreads == 2

\* A root with a hidden directory, two visible directories and one level
\* below them.
SmallDirs ==
    << R, R \o <<".h">>, R \o <<".h", "y">>, R \o <<"a">>, R \o <<"a", "x">>,
       R \o <<"b">> >>

SmallTree == MakeTreeOf(SmallDirs, Range(SmallDirs),
                        {R \o <<".h">>, R \o <<"a", "x">>}, TRUE)

\* A root that holds files only.
\* SmallTree with estimates that grow along the walk.
HugeCount == 3000
GrowingTree ==
    [SmallTree EXCEPT !.count = [@ EXCEPT ![R \o <<"a", "x">>] = HugeCount]]

RootOnlyTree == MakeTreeOf(<<R>>, {R}, {R}, TRUE)

\* One visible directory with many large directories below it.
WideNames == <<"x0", "x1", "x2", "x3", "x4", "x5", "x6", "x7", "x8", "x9">>
WideDirs ==
    <<R, R \o <<"a">>>> \o [i \in DOMAIN WideNames |-> R \o <<"a", WideNames[i]>>]

WideTree == MakeTreeOf(WideDirs, Range(WideDirs),
                       {WideDirs[i] : i \in 3..Len(WideDirs)}, TRUE)

UnlistableTree == MakeTreeOf(<<R>>, {R}, {}, FALSE)

RunConfig(t, f, stored, max_containers) ==
    [tree |-> t, faults |-> f, stored |-> stored, max_containers |-> max_containers]

\* A hidden large directory next to one visible directory.
KillTree ==
    MakeTreeOf(SmallDirs, {R, R \o <<".h">>, R \o <<".h", "y">>, R \o <<"a">>},
               {R \o <<".h">>}, TRUE)

RunConfigs ==
    { RunConfig(SmallTree, {"exit1", "launch", "inspect"}, {}, 2),
      RunConfig(SmallTree, {"poll", "poll_raise"}, {}, 2),
      RunConfig(SmallTree, {"store", "listing", "sigterm"}, {}, 2),
      RunConfig(SmallTree, {}, {R \o <<"a">>}, 2),
      RunConfig(KillTree, {"kill"}, {}, 2),
      RunConfig(RootOnlyTree, {"exit1"}, {}, 2),
      RunConfig(WideTree, {}, {}, 2),
      RunConfig(GrowingTree, {}, {}, 1),
      RunConfig(WideTree, {}, {}, 1),
      RunConfig(UnlistableTree, {}, {}, 1) }

\* The state after main() constructed the ProgressiveScanner.  A store left
\* by an earlier run holds the file records of the chunks it completed.
RunInit(configs) ==
    /\ \E cfg \in configs :
          /\ tree = cfg.tree
          /\ faults = cfg.faults
          /\ MAX_CONTAINERS = cfg.max_containers
          /\ scanned_dirs = {[path |-> p, mount_point |-> MountName] : p \in cfg.stored}
          /\ db_file = (cfg.stored # {})
          /\ database_exists = (cfg.stored # {})
          /\ OrchIdle
          /\ files = UNION {Range(SubtreeSeq(cfg.tree, p)) : p \in cfg.stored}
    /\ scanned_chunks = {}
    /\ processed_paths = {}
    /\ sample_cache = EmptyCache
    /\ plan_pc = [at |-> "run", inst |-> 0, adaptive |-> 0, read_ok |-> TRUE]
    /\ cur_plans = NoPlans
    /\ prev_plans = NoPlans
    /\ marked = {}
    /\ ScanIdle
    /\ SmartIdle
    /\ calc = NoCalc

Init == RunInit(RunConfigs)

\* The orchestrator process is killed and main() is run again over the same
\* store.  The containers (docker run -d) are not part of the process.
KillRun ==
    /\ "kill" \in faults
    /\ kills < MaxKills
    /\ main_pc = "running"
    /\ OrchReset
    /\ kills' = kills + 1
    /\ UNCHANGED <<tree, faults, MAX_CONTAINERS, scanVars, smartVars, calc, storeVars, planVars, containers, files>>

Next ==
    \/ ScanRaise
    \/ ScanStart
    \/ \E i \in Threads : GetChunk(i)
    \/ \E i \in Threads : StartContainer(i)
    \/ \E i \in Threads : PollContainer(i)
    \/ GenCheck
    \/ GenPut
    \/ ScanReturn
    \/ \E c \in DOMAIN containers : ContainerExit(c)
    \/ KillRun

\* The steps of a run that is not killed.
RunNext ==
    \/ ScanRaise
    \/ ScanStart
    \/ \E i \in Threads : GetChunk(i)
    \/ \E i \in Threads : StartContainer(i)
    \/ \E i \in Threads : PollContainer(i)
    \/ GenCheck
    \/ GenPut
    \/ ScanReturn
    \/ \E c \in DOMAIN containers : ContainerExit(c)

\* SIGINT reaches the orchestrator process.  progressive_scanner.py installs
\* no handler, so Python raises KeyboardInterrupt in the main thread.  Before
\* the threads were submitted the exception leaves scan_mount_point; after,
\* it leaves as_completed and the with-block of the ThreadPoolExecutor, whose
\* __exit__ is shutdown(wait=True): the main thread waits for the threads,
\* which go on as before.
Sigint ==
    /\ received_signal = "none"
    /\ main_pc \in {"init", "running"}
    /\ received_signal' = "SIGINT"
    /\ main_pc' = IF main_pc = "init" THEN "raised" ELSE main_pc
    /\ UNCHANGED <<tree, faults, MAX_CONTAINERS, scanVars, smartVars, calc, storeVars, instVars, planVars,
                   pending_chunks, unfinished_tasks, active_containers,
                   completed_chunks, failed_chunks, workers, gen_pc, new_chunks,
                   containers, files, kills>>

\* After SIGINT: every thread has finished, shutdown(wait=True) returns and
\* the KeyboardInterrupt leaves scan_mount_point.
ScanInterrupted ==
    /\ main_pc = "running"
    /\ received_signal = "SIGINT"
    /\ \A i \in Threads : workers[i].pc = "done"
    /\ gen_pc = "done"
    /\ main_pc' = "raised"
    /\ UNCHANGED <<tree, faults, MAX_CONTAINERS, scanVars, smartVars, calc, storeVars, instVars, planVars,
                   received_signal, pending_chunks, unfinished_tasks,
                   active_containers, completed_chunks, failed_chunks, workers,
                   gen_pc, new_chunks, containers, files, kills>>

\* SIGTERM reaches the orchestrator process.  With no handler installed the
\* process ends at once, and its threads with it; the containers, started
\* with docker run -d, are not its children and go on.
Sigterm ==
    /\ received_signal = "none"
    /\ main_pc \in {"init", "running"}
    /\ received_signal' = "SIGTERM"
    /\ main_pc' = "killed"
    /\ workers' = [i \in Threads |-> [pc |-> "done", chunk |-> NoChunk, cid |-> NoId]]
    /\ gen_pc' = "done"
    /\ UNCHANGED <<tree, faults, MAX_CONTAINERS, scanVars, smartVars, calc, storeVars, instVars, planVars,
                   pending_chunks, unfinished_tasks, active_containers,
                   completed_chunks, failed_chunks, new_chunks, containers,
                   files, kills>>

\* The steps of a run that may receive a signal.
SignalNext ==
    \/ ScanRaise
    \/ ScanStart
    \/ \E i \in Threads : GetChunk(i)
    \/ \E i \in Threads : StartContainer(i)
    \/ \E i \in Threads : PollContainer(i)
    \/ GenCheck
    \/ GenPut
    \/ ScanReturn
    \/ \E c \in DOMAIN containers : ContainerExit(c)
    \/ Sigint
    \/ ScanInterrupted
    \/ Sigterm

SignalConfigs ==
    { RunConfig(SmallTree, {}, {}, 2),
      RunConfig(WideTree, {}, {}, 1),
      RunConfig(UnlistableTree, {}, {}, 1) }

SignalInit == RunInit(SignalConfigs)

\* Runs whose environment never fails.
FairConfigs ==
    { RunConfig(SmallTree, {}, {}, 2),
      RunConfig(RootOnlyTree, {}, {}, 1),
      RunConfig(WideTree, {}, {}, 1),
      RunConfig(UnlistableTree, {}, {}, 1) }

FairInit == RunInit(FairConfigs)

-----------------------------------------------------------------------------
(* The scan worker: nas_scanner_hp.py.                                     *)

BATCH_SIZE == 1000
LARGE_FILE_THRESHOLD == 10485760

\* The path the worker is started on (its mount_path argument).
ChunkRoot == <<"c">>

\* One entry of a directory as os.scandir yields it.  kind is "file" (a
\* regular file), "dir", "symlink_file" or "symlink_dir"; n is the number of
\* regular files of that size the entry stands for.
Entry(name, kind, size, n) == [name |-> name, kind |-> kind, size |-> size, n |-> n]

\* os.walk(root_path), top-down and not following links: a directory whose
\* listing fails is not yielded and nothing below it is visited.
RECURSIVE Walk(_, _, _)
RECURSIVE WalkEntries(_, _, _, _)
Walk(f, top, unlistable) ==
    IF top \in unlistable THEN <<>>
    ELSE <<top>> \o WalkEntries(f, top, f.entries[top], unlistable)

WalkEntries(f, top, ents, unlistable) ==
    IF ents = <<>> THEN <<>>
    ELSE (IF Head(ents).kind = "dir"
          THEN Walk(f, top \o <<Head(ents).name>>, unlistable)
          ELSE <<>>)
         \o WalkEntries(f, top, Tail(ents), unlistable)

\* calculate_checksum(filepath, size): the digest of the samples of a large
\* file or of the whole content, None when reading raises.
CalculateChecksum(size, readable) ==
    IF ~readable THEN "None"
    ELSE IF size > LARGE_FILE_THRESHOLD THEN "blake2b-sampled" ELSE "blake2b-full"

\* scan_directory: the file_info of one entry (of its fields, mtime,
\* extension and file_type are left out).
FileInfo(path, e, mount_name, now, fail) ==
    [path |-> path \o <<e.name>>,
     size |-> e.size,
     checksum |-> IF e.size > 0
                  THEN CalculateChecksum(e.size, (path \o <<e.name>>) \notin fail.read)
                  ELSE "empty",
     mount_point |-> mount_name,
     scan_time |-> now,
     n |-> e.n]

\* scan_directory((path, mount_name)): the records of the regular files of
\* one directory.  An entry whose stat raises is skipped; when os.scandir
\* raises the directory gives no record.
ScanDirectory_FollowsLinks(f, path, mount_name, now, fail) ==
    IF path \in fail.scandir THEN <<>>
    ELSE LET listed == SelectSeq(f.entries[path],
                          LAMBDA e : /\ e.kind \in {"file", "symlink_file"}
                                     /\ (path \o <<e.name>>) \notin fail.stat)
         IN [i \in 1..Len(listed) |-> FileInfo(path, listed[i], mount_name, now, fail)]

ScanDirectory_AbortsOnError(f, path, mount_name, now, fail) ==
    IF path \in fail.scandir THEN <<>>
    ELSE IF \E i \in 1..Len(f.entries[path]) :
                (path \o <<f.entries[path][i].name>>) \in (fail.stat \cup fail.read)
    THEN <<>>
    ELSE LET listed == SelectSeq(f.entries[path], LAMBDA e : e.kind = "file")
         IN [i \in 1..Len(listed) |-> FileInfo(path, listed[i], mount_name, now, fail)]

ScanDirectory(f, path, mount_name, now, fail) ==
    IF path \in fail.scandir THEN <<>>
    ELSE LET listed == SelectSeq(f.entries[path],
                          LAMBDA e : /\ e.kind = "file"
                                     /\ (path \o <<e.name>>) \notin fail.stat)
         IN [i \in 1..Len(listed) |-> FileInfo(path, listed[i], mount_name, now, fail)]

\* len(batch)
RECURSIVE BatchLen(_)
BatchLen(b) == IF b = <<>> THEN 0 ELSE Head(b).n + BatchLen(Tail(b))

\* INSERT OR REPLACE INTO files, path being the primary key.
InsertOrReplace_Inserts(table, rec) == table \cup {rec}

InsertOrReplace(table, rec) == {r \in table : r.path # rec.path} \cup {rec}

RECURSIVE ExecuteMany(_, _)
ExecuteMany(table, file_batch) ==
    IF file_batch = <<>> THEN table
    ELSE ExecuteMany(InsertOrReplace(table, Head(file_batch)), Tail(file_batch))

\* DatabaseManager.save_files(file_batch): one transaction; an exception is
\* logged and swallowed.
SaveFiles(table, file_batch, ok) ==
    IF file_batch = <<>> \/ ~ok THEN table ELSE ExecuteMany(table, file_batch)

\* The outcomes of a write to the store by the worker.
SaveOutcomes(file_batch) ==
    IF "save" \in faults /\ file_batch # <<>> THEN BOOLEAN ELSE {TRUE}

\* Scanner._save_batch(batch): save_files, then the statistics.
SaveBatch(b, ok) ==
    /\ files_table' = SaveFiles(files_table, b, ok)
    /\ save_errors' = IF ok THEN save_errors ELSE save_errors + 1
    /\ files_scanned' = files_scanned + BatchLen(b)

progVars == <<tree, MAX_CONTAINERS, storeVars, instVars, planVars, orchVars, smartVars, calc>>

\* What may fail while a worker process reads the chunk: at most one
\* directory whose listing fails in os.walk, one whose listing fails in
\* os.scandir, one entry whose stat fails and one file that cannot be read.
FilePaths(f) ==
    UNION {{d \o <<f.entries[d][i].name>> : i \in 1..Len(f.entries[d])} : d \in DOMAIN f.entries}

AtMostOne(S) == {{}} \cup {{x} : x \in S}

ScanFailures(f) ==
    [walk : IF "walk" \in faults THEN AtMostOne(DOMAIN f.entries) ELSE {{}},
     scandir : IF "scandir" \in faults THEN AtMostOne(DOMAIN f.entries) ELSE {{}},
     stat : IF "stat" \in faults THEN AtMostOne(FilePaths(f)) ELSE {{}},
     read : IF "checksum" \in faults THEN AtMostOne(FilePaths(f)) ELSE {{}}]

\* main(): the path check, then Scanner.__init__, which opens the store and
\* installs the signal handlers.
WorkerMain ==
    /\ scan_pc = "main"
    /\ IF fs.exists
       THEN \E schema_ok \in (IF "schema" \in faults THEN BOOLEAN ELSE {TRUE}) :
               /\ scan_pc' = IF schema_ok THEN "collect" ELSE "exited"
               /\ exit_status' = IF schema_ok THEN "none" ELSE "1"
       ELSE /\ scan_pc' = "exited"
            /\ exit_status' = "1"
    /\ io_errors' \in ScanFailures(fs)
    /\ UNCHANGED <<progVars, faults, fs, shutdown, directories, results, result_idx,
                   batch, files_table, files_scanned, save_errors, scan_run>>

\* Scanner.scan: _collect_directories(mount_path).  With the shutdown flag
\* set the walk stops at its first directory.
CollectDirectories ==
    /\ scan_pc = "collect"
    /\ directories' = IF shutdown THEN <<>> ELSE Walk(fs, ChunkRoot, io_errors.walk)
    /\ scan_pc' = "map"
    /\ UNCHANGED <<progVars, faults, fs, shutdown, results, result_idx, batch,
                   files_table, files_scanned, save_errors, exit_status, scan_run,
                   io_errors>>

\* Scanner.scan: `if self.shutdown: return`, else pool.map(scan_directory,
\* work_items).
PoolMap ==
    /\ scan_pc = "map"
    /\ IF shutdown
       THEN /\ scan_pc' = "exited"
            /\ exit_status' = "0"
            /\ UNCHANGED <<results, result_idx>>
       ELSE /\ results' = [i \in 1..Len(directories) |->
                               ScanDirectory(fs, directories[i], MountName, scan_run,
                                             io_errors)]
            /\ result_idx' = 1
            /\ scan_pc' = IF directories = <<>> THEN "final" ELSE "results"
            /\ UNCHANGED exit_status
    /\ UNCHANGED <<progVars, faults, fs, shutdown, directories, batch, files_table,
                   files_scanned, save_errors, scan_run, io_errors>>

\* Scanner.scan: one iteration of `for file_list in results`.
ProcessResult ==
    /\ scan_pc = "results"
    /\ IF shutdown
       THEN /\ scan_pc' = "final"
            /\ UNCHANGED <<result_idx, batch, files_table, files_scanned, save_errors>>
       ELSE /\ LET b == batch \o results[result_idx]
               IN IF BatchLen(b) >= BATCH_SIZE
                  THEN /\ \E ok \in SaveOutcomes(b) : SaveBatch(b, ok)
                       /\ batch' = <<>>
                  ELSE /\ batch' = b
                       /\ UNCHANGED <<files_table, files_scanned, save_errors>>
            /\ result_idx' = result_idx + 1
            /\ scan_pc' = IF result_idx = Len(results) THEN "final" ELSE "results"
    /\ UNCHANGED <<progVars, faults, fs, shutdown, directories, results,
                   exit_status, scan_run, io_errors>>

\* An end of Scanner.scan that does not save the final batch.
FinalBatch_NoFlush ==
    /\ scan_pc = "final"
    /\ scan_pc' = "exited"
    /\ exit_status' = "0"
    /\ UNCHANGED <<progVars, faults, fs, shutdown, directories, results, result_idx,
                   batch, files_table, files_scanned, save_errors, scan_run, io_errors>>

\* Scanner.scan: the final batch, _print_stats, and the return through
\* main(): the process ends with status 0.
FinalBatch ==
    /\ scan_pc = "final"
    /\ IF batch # <<>>
       THEN \E ok \in SaveOutcomes(batch) : SaveBatch(batch, ok)
       ELSE UNCHANGED <<files_table, files_scanned, save_errors>>
    /\ scan_pc' = "exited"
    /\ exit_status' = "0"
    /\ UNCHANGED <<progVars, faults, fs, shutdown, directories, results, result_idx,
                   batch, scan_run, io_errors>>

\* Scanner._signal_handler: SIGINT or SIGTERM sets the flag.
SignalHandler ==
    /\ "sigterm" \in faults
    /\ scan_pc \in {"collect", "map", "results", "final"}
    /\ ~shutdown
    /\ shutdown' = TRUE
    /\ UNCHANGED <<progVars, faults, fs, scan_pc, directories, results, result_idx,
                   batch, files_table, files_scanned, save_errors, exit_status,
                   scan_run, io_errors>>

\* The worker process is killed (SIGKILL, out of memory, power loss).  A
\* transaction that was not committed leaves no row.
WorkerKilled ==
    /\ "crash" \in faults
    /\ scan_pc \in {"main", "collect", "map", "results", "final"}
    /\ scan_pc' = "exited"
    /\ exit_status' = "137"
    /\ UNCHANGED <<progVars, faults, fs, shutdown, directories, results, result_idx,
                   batch, files_table, files_scanned, save_errors, scan_run, io_errors>>

MaxScanRuns == 2

\* The worker is started again on the same chunk and the same store.
WorkerRerun ==
    /\ scan_pc = "exited"
    /\ scan_run < MaxScanRuns
    /\ scan_run' = scan_run + 1
    /\ scan_pc' = "main"
    /\ shutdown' = FALSE
    /\ directories' = <<>>
    /\ results' = <<>>
    /\ result_idx' = 0
    /\ batch' = <<>>
    /\ files_scanned' = 0
    /\ save_errors' = 0
    /\ exit_status' = "none"
    /\ io_errors' = NoFailure
    /\ UNCHANGED <<progVars, faults, fs, files_table>>

ScanNext ==
    \/ WorkerMain
    \/ CollectDirectories
    \/ PoolMap
    \/ ProcessResult
    \/ FinalBatch
    \/ SignalHandler
    \/ WorkerKilled
    \/ WorkerRerun

\* The chunks the worker is run on.
BulkFiles == 1000
SmallSize == 100
LargeSize == 15728640

FullFs ==
    [exists |-> TRUE,
     entries |->
        (ChunkRoot :> << Entry("f1", "file", SmallSize, 1), Entry("f0", "file", 0, 1),
                         Entry("l", "symlink_file", SmallSize, 1),
                         Entry("ld", "symlink_dir", 0, 1),
                         Entry("d", "dir", 0, 1), Entry(".s", "dir", 0, 1) >>)
        @@ ((ChunkRoot \o <<"d">>) :> << Entry("g", "file", LargeSize, 1),
                                          Entry("e", "dir", 0, 1) >>)
        @@ ((ChunkRoot \o <<"d", "e">>) :> << Entry("h", "file", SmallSize, 1) >>)
        @@ ((ChunkRoot \o <<".s">>) :> << Entry("k", "file", SmallSize, 1) >>)]

BulkFs ==
    [exists |-> TRUE,
     entries |->
        (ChunkRoot :> << Entry("f1", "file", SmallSize, 1), Entry("d", "dir", 0, 1),
                         Entry("e", "dir", 0, 1) >>)
        @@ ((ChunkRoot \o <<"d">>) :> << Entry("bulk", "file", SmallSize, BulkFiles),
                                          Entry("g", "file", SmallSize, 1) >>)
        @@ ((ChunkRoot \o <<"e">>) :> << Entry("h", "file", SmallSize, 1) >>)]

EmptyFs == [exists |-> TRUE, entries |-> (ChunkRoot :> <<>>)]

MissingFs == [exists |-> FALSE, entries |-> (ChunkRoot :> <<>>)]

ChunkTrees == {FullFs, BulkFs, EmptyFs, MissingFs}

ScanFaultSets ==
    { {}, {"stat"}, {"checksum"}, {"scandir"}, {"walk"}, {"save"}, {"sigterm"},
      {"crash"}, {"schema"} }

\* The orchestrator is not looked at: the behaviour is about one worker.
ProgIdle ==
    /\ tree = RootOnlyTree
    /\ MAX_CONTAINERS = 1
    /\ scanned_dirs = {}
    /\ db_file = FALSE
    /\ database_exists = FALSE
    /\ scanned_chunks = {}
    /\ processed_paths = {}
    /\ sample_cache = EmptyCache
    /\ plan_pc = [at |-> "run", inst |-> 0, adaptive |-> 0, read_ok |-> TRUE]
    /\ cur_plans = NoPlans
    /\ prev_plans = NoPlans
    /\ marked = {}
    /\ OrchIdle
    /\ files = {}
    /\ SmartIdle

ScanInit ==
    /\ ProgIdle
    /\ fs \in ChunkTrees
    /\ faults \in ScanFaultSets
    /\ scan_pc = "main"
    /\ shutdown = FALSE
    /\ directories = <<>>
    /\ results = <<>>
    /\ result_idx = 0
    /\ batch = <<>>
    /\ files_table = {}
    /\ files_scanned = 0
    /\ save_errors = 0
    /\ exit_status = "none"
    /\ scan_run = 1
    /\ io_errors = NoFailure
    /\ calc = NoCalc

-----------------------------------------------------------------------------
(* The checkpoint store's scanned_dirs table, written and read through     *)
(* mark_chunk_scanned and get_scanned_chunks by scanners of two mounts.    *)

OtherMountName == "N"
MountNames == {MountName, OtherMountName}

\* The chunk paths that are marked.
StorePaths == {R \o <<"a">>, R \o <<"b">>, R \o <<"a", "x">>}

StoreInit ==
    /\ tree = RootOnlyTree
    /\ faults = {"store"}
    /\ MAX_CONTAINERS = 1
    /\ scanned_dirs = {}
    /\ db_file = TRUE
    /\ database_exists = TRUE
    /\ scanned_chunks = {}
    /\ processed_paths = {}
    /\ sample_cache = EmptyCache
    /\ plan_pc = [at |-> "store", mount_name |-> MountName, read_ok |-> FALSE]
    /\ cur_plans = NoPlans
    /\ prev_plans = NoPlans
    /\ marked = [p \in StorePaths |-> "none"]
    /\ OrchIdle
    /\ files = {}
    /\ ScanIdle
    /\ SmartIdle
    /\ calc = NoCalc

\* scanner.mark_chunk_scanned(chunk_path, mount_name); marked keeps, for
\* every path, the mount of the last call that met no store error.
StoreMark ==
    /\ plan_pc.at \in {"store", "loaded"}
    /\ \E chunk_path \in StorePaths, mount_name \in MountNames, write_ok \in StoreOutcomes :
          /\ scanned_dirs' = MarkChunkScanned(scanned_dirs, chunk_path, mount_name, write_ok)
          /\ marked' = IF write_ok THEN [marked EXCEPT ![chunk_path] = mount_name]
                       ELSE marked
    /\ UNCHANGED <<tree, faults, MAX_CONTAINERS, scanVars, smartVars, calc, db_file, instVars, plan_pc,
                   cur_plans, prev_plans>>
    /\ UNCHANGED orchVars

\* A new scanner instance over the same database:
\* scanned_chunks = get_scanned_chunks(mount_name).
StoreLoad ==
    /\ plan_pc.at \in {"store", "loaded"}
    /\ \E mount_name \in MountNames, read_ok \in StoreOutcomes :
          /\ scanned_chunks' = GetScannedChunks(scanned_dirs, mount_name, read_ok)
          /\ plan_pc' = [at |-> "loaded", mount_name |-> mount_name, read_ok |-> read_ok]
    /\ UNCHANGED <<tree, faults, MAX_CONTAINERS, scanVars, smartVars, calc, storeVars, database_exists,
                   processed_paths, sample_cache, cur_plans, prev_plans, marked>>
    /\ UNCHANGED orchVars

StoreNext ==
    \/ StoreMark
    \/ StoreLoad

-----------------------------------------------------------------------------
(* The size-based planner: DirectoryAnalyzer (smart_scanner.py).  Sizes    *)
(* are counted in whole GiB; a tree t gives, for every directory, the      *)
(* number and the size of the files directly in it (t.count, t.gb), the    *)
(* directories that cannot be listed (t.unlistable), whether the root      *)
(* exists (t.exists) and whether its path contains '/mnt/user/'            *)
(* (t.mnt_user).                                                           *)

CHUNK_SIZE_GB == 100
\* get_directory_size: "if file_count > 50000"
LargeTreeFiles == 50000
\* CHUNK_SIZE_BYTES + 1: the size of a directory taken as oversized (one
\* unit above the target in the unit of the model).
Oversized == CHUNK_SIZE_GB + 1

RECURSIVE SumOver(_, _)
SumOver(f, seq) == IF seq = <<>> THEN 0 ELSE f[Head(seq)] + SumOver(f, Tail(seq))

\* find "path" -type f | wc -l: the files find can reach
TotalFiles(t, path) ==
    SumOver(t.count,
            SelectSeq(SubtreeSeq(t, path),
                      LAMBDA d : \A u \in t.unlistable : d # u /\ ~IsBelow(u, d)))

\* the sum of find path -type f -printf '%s\n', or du -sb
TotalGB(t, path) == SumOver(t.gb, SubtreeSeq(t, path))

\* os.listdir(dir_path) filtered by isdir, in listing order
Subdirs(t, dir_path) ==
    SelectSeq(t.dirs, LAMBDA p : Len(p) = Len(dir_path) + 1 /\ IsBelow(dir_path, p))

\* What the size probes of one planning meet: the paths whose probe runs
\* into its timeout and the paths whose probe raises.
NoProbeFailure == [timeout |-> {}, error |-> {}]

\* get_directory_size(path): an oversized tree by its file count or after
\* a timeout; 0 when the probe raises or when find and du both end with a
\* non-zero status (a directory below path cannot be read); else the size.
GetDirectorySize(t, path, probe) ==
    IF path \in probe.timeout THEN Oversized
    ELSE IF path \in probe.error THEN 0
    ELSE IF TotalFiles(t, path) > LargeTreeFiles THEN Oversized
    ELSE IF \E d \in Range(SubtreeSeq(t, path)) : d \in t.unlistable THEN 0
    ELSE TotalGB(t, path)

SmartChunk(path, size_gb, depth, note) ==
    [path |-> path, size_gb |-> size_gb, mount_name |-> MountName,
     depth |-> depth, note |-> note]

\* _analyze_directories_parallel.analyze_single(dir_path): the directory is
\* a chunk whatever its size.
AnalyzeSingle(t, dir_path, depth, probe) ==
    LET dir_size == GetDirectorySize(t, dir_path, probe)
    IN SmartChunk(dir_path, dir_size, depth,
                  IF dir_size <= CHUNK_SIZE_GB THEN "Parallel analysis"
                  ELSE "Large directory - single chunk")

\* find_optimal_chunks.analyze_directory(dir_path, depth) from the call of
\* get_directory_size on: the chunks it appends and the paths it probes.
RECURSIVE AnalyzeDirectory(_, _, _, _)
RECURSIVE AnalyzeEach(_, _, _, _)
AnalyzeDirectory(t, dir_path, depth, probe) ==
    LET dir_size == GetDirectorySize(t, dir_path, probe)
        subdirs == Subdirs(t, dir_path)
        one(note) == [chunks |-> <<SmartChunk(dir_path, dir_size, depth, note)>>,
                      probed |-> {dir_path}]
    IN IF dir_size <= CHUNK_SIZE_GB THEN one("none")
       ELSE IF dir_path \in t.unlistable
            THEN one("Cannot subdivide - permission denied")
       ELSE IF subdirs = <<>> THEN one("Leaf directory")
       ELSE LET below == AnalyzeEach(t, subdirs, depth + 1, probe)
            IN [chunks |-> below.chunks, probed |-> {dir_path} \cup below.probed]

AnalyzeEach(t, subdirs, depth, probe) ==
    IF subdirs = <<>> THEN [chunks |-> <<>>, probed |-> {}]
    ELSE LET first == AnalyzeDirectory(t, Head(subdirs), depth, probe)
             rest == AnalyzeEach(t, Tail(subdirs), depth, probe)
         IN [chunks |-> first.chunks \o rest.chunks,
             probed |-> first.probed \cup rest.probed]

\* chunks.sort(key=lambda x: x['size_gb'], reverse=True): a stable sort.
RECURSIVE InsertDescending(_, _)
InsertDescending(sorted, chunk) ==
    IF sorted = <<>> THEN <<chunk>>
    ELSE IF Head(sorted).size_gb >= chunk.size_gb
         THEN <<Head(sorted)>> \o InsertDescending(Tail(sorted), chunk)
         ELSE <<chunk>> \o sorted

RECURSIVE SortDescending(_, _)
SortDescending(list, sorted) ==
    IF list = <<>> THEN sorted
    ELSE SortDescending(Tail(list), InsertDescending(sorted, Head(list)))

\* The orders in which as_completed may yield n futures.
CompletionOrders(n) ==
    {p \in [1..n -> 1..n] : \A i, j \in 1..n : p[i] = p[j] => i = j}

\* The subdirectories find_optimal_chunks analyses in parallel: those of a
\* root whose path contains '/mnt/user/', the hidden ones left out.
ParallelSubdirs(t) ==
    IF t.mnt_user /\ t.root \notin t.unlistable
    THEN SelectSeq(Subdirs(t, t.root), LAMBDA p : ~IsHidden(p[Len(p)]))
    ELSE <<>>

\* find_optimal_chunks(root_path, mount_name): the sorted chunks and the
\* paths probed.  order is the order in which the parallel analyses end.
FindOptimalChunks(t, probe, order) ==
    LET subdir_paths == ParallelSubdirs(t)
    IN IF subdir_paths # <<>>
       THEN [chunks |-> SortDescending(
                           [i \in 1..Len(subdir_paths) |->
                               AnalyzeSingle(t, subdir_paths[order[i]], 1, probe)], <<>>),
             probed |-> Range(subdir_paths)]
       ELSE LET r == AnalyzeDirectory(t, t.root, 0, probe)
            IN [chunks |-> SortDescending(r.chunks, <<>>), probed |-> r.probed]

\* A fast plan that leaves the hidden directories out.
ListQuickChunks_SkipsHidden(t) ==
    LET subs == IF t.root \in t.unlistable THEN <<>>
                ELSE SelectSeq(Subdirs(t, t.root), LAMBDA p : ~IsHidden(p[Len(p)]))
    IN IF subs = <<>> THEN <<SmartChunk(t.root, 0, 0, "fast-root")>>
       ELSE [i \in 1..Len(subs) |-> SmartChunk(subs[i], 0, 1, "fast")]

\* list_quick_chunks(root_path, mount_name): os.scandir with
\* is_dir(follow_symlinks=False); when the listing raises or finds no
\* directory the root is the one chunk.
ListQuickChunks(t) ==
    LET subs == IF t.root \in t.unlistable THEN <<>> ELSE Subdirs(t, t.root)
    IN IF subs = <<>> THEN <<SmartChunk(t.root, 0, 0, "fast-root")>>
       ELSE [i \in 1..Len(subs) |-> SmartChunk(subs[i], 0, 1, "fast")]

\* scan_mount_point: the plan, with the fallback chunk for an empty one.
PlanChunks(t, skip, probe, order) ==
    LET planned == IF skip THEN [chunks |-> ListQuickChunks(t), probed |-> {}]
                   ELSE FindOptimalChunks(t, probe, order)
    IN IF planned.chunks = <<>>
       THEN [chunks |-> <<SmartChunk(t.root, 0, 0, "Fallback chunk - analysis failed")>>,
             probed |-> planned.probed]
       ELSE planned

-----------------------------------------------------------------------------
(* Runs of the size-based orchestrator: SmartScanner.scan_mount_point, the *)
(* threads of its executor, each running _process_chunk for one chunk, and *)
(* its signal handler.                                                     *)

SmallGB == 10
BigGB == 150
ManyFiles == 60000

\* A tree over the directories S: the directories in big hold BigGB of
\* files, those in many hold ManyFiles files, those in empty hold none.
SmartTree(S, big, many, empty, unlistable, mnt_user, exists) ==
    [root |-> R,
     dirs |-> SelectSeq(UniverseDirs, LAMBDA p : p \in S),
     listable |-> R \notin unlistable,
     count |-> [p \in S |-> IF p \in many THEN ManyFiles
                            ELSE IF p \in empty THEN 0 ELSE SmallCount],
     gb |-> [p \in S |-> IF p \in big THEN BigGB
                         ELSE IF p \in empty THEN 0 ELSE SmallGB],
     unlistable |-> unlistable,
     mnt_user |-> mnt_user,
     exists |-> exists]

\* Nothing is in the directory.
IsEmptyDir(t, path) == t.count[path] = 0 /\ Subdirs(t, path) = <<>>

SmartDirs == {R, R \o <<".h">>, R \o <<"a">>, R \o <<"a", "x">>, R \o <<"b">>}

SmartTrees ==
    { \* a large directory with a subdirectory next to an empty directory
      SmartTree(SmartDirs, {R \o <<"a">>}, {}, {R \o <<"b">>}, {}, TRUE, TRUE),
      SmartTree(SmartDirs, {R \o <<"a">>}, {}, {R \o <<"b">>}, {}, FALSE, TRUE),
      \* a directory of many files above a large one; an unlistable directory
      SmartTree(SmartDirs, {R \o <<"a", "x">>}, {R \o <<"a">>}, {},
                {R \o <<"b">>}, FALSE, TRUE),
      \* a large directory that cannot be listed
      SmartTree(SmartDirs \ {R \o <<".h">>}, {R \o <<"a">>, R \o <<"b">>}, {}, {},
                {R \o <<"a">>}, FALSE, TRUE),
      \* a root without subdirectories, an unlistable root, a missing root
      SmartTree({R}, {R}, {}, {}, {}, TRUE, TRUE),
      SmartTree({R, R \o <<"a">>}, {}, {}, {}, {R}, TRUE, TRUE),
      SmartTree({R}, {}, {}, {}, {}, TRUE, FALSE) }

SmartFaultSets == { {}, {"probe"}, {"create"}, {"launch", "exit1"}, {"signal"} }

\* main(): the SmartScanner is constructed.  No store is there yet.
SmartInit ==
    /\ tree \in SmartTrees
    /\ faults \in SmartFaultSets
    /\ MAX_CONTAINERS \in {1, 2}
    /\ skip_analysis \in BOOLEAN
    /\ (faults # {} => MAX_CONTAINERS = 2 /\ tree.exists /\ tree.root \notin tree.unlistable)
    /\ scanned_dirs = {}
    /\ db_file = FALSE
    /\ database_exists = FALSE
    /\ scanned_chunks = {}
    /\ processed_paths = {}
    /\ sample_cache = EmptyCache
    /\ plan_pc = [at |-> "run", inst |-> 0, adaptive |-> 0, read_ok |-> TRUE]
    /\ cur_plans = NoPlans
    /\ prev_plans = NoPlans
    /\ marked = {}
    /\ OrchIdle
    /\ files = {}
    /\ ScanIdle
    /\ smart_chunks = <<>>
    /\ futures = <<>>
    /\ size_probes = {}
    /\ calc = NoCalc

\* What the size probes of a planning may meet.
ProbeFailures(t) ==
    IF "probe" \in faults
    THEN [timeout : AtMostOne(Range(t.dirs)), error : AtMostOne(Range(t.dirs))]
    ELSE {NoProbeFailure}

\* scan_mount_point: the mount path does not exist, or create_scan_database
\* raises.
SmartRaise ==
    /\ main_pc = "init"
    /\ ~tree.exists \/ "create" \in faults
    /\ main_pc' = "raised"
    /\ UNCHANGED <<tree, faults, MAX_CONTAINERS, scanVars, storeVars, instVars, planVars,
                   received_signal, pending_chunks, unfinished_tasks, active_containers,
                   completed_chunks, failed_chunks, workers, gen_pc, new_chunks,
                   containers, files, kills, smartVars, calc>>

\* scan_mount_point up to the submission of the chunks: the check of the
\* mount path, create_scan_database, the planning, executor.submit for
\* every chunk.
SmartStart ==
    /\ main_pc = "init"
    /\ tree.exists
    /\ \E probe \in ProbeFailures(tree) :
       \E order \in CompletionOrders(Len(ParallelSubdirs(tree))) :
          LET plan == PlanChunks(tree, skip_analysis, probe, order)
          IN /\ smart_chunks' = plan.chunks
             /\ size_probes' = plan.probed
             /\ futures' = [k \in 1..Len(plan.chunks) |-> "queued"]
    /\ db_file' = TRUE
    /\ main_pc' = "running"
    /\ UNCHANGED <<tree, faults, MAX_CONTAINERS, scanVars, scanned_dirs, instVars, planVars,
                   received_signal, pending_chunks, unfinished_tasks, active_containers,
                   completed_chunks, failed_chunks, workers, gen_pc, new_chunks,
                   containers, files, kills, skip_analysis, calc>>

\* The executor's work queue is first in, first out.
NextQueued == CHOOSE k \in DOMAIN futures :
                 /\ futures[k] = "queued"
                 /\ \A j \in DOMAIN futures : futures[j] = "queued" => k <= j

\* A thread of the executor takes the next work item: _process_chunk(chunk)
\* begins.
SmartTake(i) ==
    /\ main_pc \in {"running", "exiting"}
    /\ workers[i].pc = "idle"
    /\ \E k \in DOMAIN futures : futures[k] = "queued"
    /\ futures' = [futures EXCEPT ![NextQueued] = "running"]
    /\ workers' = [workers EXCEPT ![i] =
                      [pc |-> "start", chunk |-> smart_chunks[NextQueued], cid |-> NoId,
                       future |-> NextQueued]]
    /\ UNCHANGED <<tree, faults, MAX_CONTAINERS, scanVars, storeVars, instVars, planVars,
                   received_signal, main_pc, pending_chunks, unfinished_tasks,
                   active_containers, completed_chunks, failed_chunks, gen_pc,
                   new_chunks, containers, files, kills, skip_analysis, smart_chunks,
                   size_probes, calc>>

\* SmartScanner.start_container: container_name
SmartContainerName(path) == ContainerNameOf(SmartPrefix, PathString(path), SmartNameTail)

\* _process_chunk: start_container(chunk).  docker run fails when a
\* container of the same name runs, and may fail for other reasons; the
\* chunk's path is not looked at.  A failed launch raises.
SmartStartContainer(i) ==
    /\ workers[i].pc = "start"
    /\ "future" \in DOMAIN workers[i]
    /\ LET chunk == workers[i].chunk
           name_taken == \E c \in Running :
                            SmartContainerName(containers[c].path)
                               = SmartContainerName(chunk.path)
       IN \E started \in (IF name_taken THEN {FALSE}
                          ELSE IF "launch" \in faults THEN BOOLEAN ELSE {TRUE}) :
             IF started
             THEN /\ containers' = Launch(chunk, "running", "none")
                  /\ active_containers' =
                        [c \in DOMAIN active_containers \cup {NewId(chunk.path)} |->
                            IF c = NewId(chunk.path) THEN chunk
                            ELSE active_containers[c]]
                  /\ workers' = [workers EXCEPT ![i].pc = "wait",
                                                ![i].cid = NewId(chunk.path)]
                  /\ UNCHANGED futures
             ELSE /\ containers' = Launch(chunk, "failed_to_start", "failed")
                  /\ futures' = [futures EXCEPT ![workers[i].future] = "raised"]
                  /\ workers' = [workers EXCEPT ![i] = IdleWorker]
                  /\ UNCHANGED active_containers
    /\ UNCHANGED <<tree, faults, MAX_CONTAINERS, scanVars, storeVars, instVars, planVars,
                   received_signal, main_pc, pending_chunks, unfinished_tasks,
                   completed_chunks, failed_chunks, gen_pc, new_chunks, files, kills,
                   skip_analysis, smart_chunks, size_probes, calc>>

\* _process_chunk: the iteration of the wait loop that finds the container
\* gone: the exit code is read and counted, and a code other than 0 raises.
\* The handle stays in active_containers.
SmartPoll(i) ==
    /\ workers[i].pc = "wait"
    /\ "future" \in DOMAIN workers[i]
    /\ LET c == workers[i].cid
       IN /\ containers[c].status = "exited"
          /\ \E stdout \in InspectOutputs(c) :
                LET exit_code == ExitCodeOf(stdout) IN
                IF exit_code = 0
                THEN /\ completed_chunks' = completed_chunks + 1
                     /\ containers' = [containers EXCEPT ![c].result = "completed"]
                     /\ futures' = [futures EXCEPT ![workers[i].future] = "returned"]
                     /\ UNCHANGED failed_chunks
                ELSE /\ failed_chunks' = failed_chunks + 1
                     /\ containers' = [containers EXCEPT ![c].result = "failed"]
                     /\ futures' = [futures EXCEPT ![workers[i].future] = "raised"]
                     /\ UNCHANGED completed_chunks
    /\ workers' = [workers EXCEPT ![i] = IdleWorker]
    /\ UNCHANGED <<tree, faults, MAX_CONTAINERS, scanVars, storeVars, instVars, planVars,
                   received_signal, main_pc, pending_chunks, unfinished_tasks,
                   active_containers, gen_pc, new_chunks, files, kills, skip_analysis,
                   smart_chunks, size_probes, calc>>

\* scan_mount_point: one iteration of "for future in as_completed(futures)":
\* a work item that raised is counted as failed.
SmartCollect ==
    /\ main_pc = "running"
    /\ \E k \in DOMAIN futures :
          /\ futures[k] \in {"returned", "raised"}
          /\ futures' = [futures EXCEPT ![k] = "seen"]
          /\ failed_chunks' = IF futures[k] = "raised" THEN failed_chunks + 1
                              ELSE failed_chunks
    /\ UNCHANGED <<tree, faults, MAX_CONTAINERS, scanVars, storeVars, instVars, planVars,
                   received_signal, main_pc, pending_chunks, unfinished_tasks,
                   active_containers, completed_chunks, workers, gen_pc, new_chunks,
                   containers, files, kills, skip_analysis, smart_chunks, size_probes,
                   calc>>

\* scan_mount_point after the executor: the final statistics.
SmartReturn ==
    /\ main_pc = "running"
    /\ \A k \in DOMAIN futures : futures[k] = "seen"
    /\ main_pc' = "returned"
    /\ UNCHANGED <<tree, faults, MAX_CONTAINERS, scanVars, storeVars, instVars, planVars,
                   received_signal, pending_chunks, unfinished_tasks, active_containers,
                   completed_chunks, failed_chunks, workers, gen_pc, new_chunks,
                   containers, files, kills, smartVars, calc>>

\* _setup_signal_handlers.signal_handler, run by the main thread inside the
\* executor's with block: docker stop for every handle in
\* active_containers, then sys.exit(130), which leaves the with block
\* through ThreadPoolExecutor.__exit__.
SmartSignal ==
    /\ "signal" \in faults
    /\ main_pc = "running"
    /\ \E sig \in {"SIGINT", "SIGTERM"} : received_signal' = sig
    /\ containers' = [c \in DOMAIN containers |->
                         IF c \in DOMAIN active_containers
                            /\ containers[c].status = "running"
                         THEN [containers[c] EXCEPT !.status = "exited", !.exit_code = 137]
                         ELSE containers[c]]
    /\ main_pc' = "exiting"
    /\ UNCHANGED <<tree, faults, MAX_CONTAINERS, scanVars, storeVars, instVars, planVars,
                   pending_chunks, unfinished_tasks, active_containers, completed_chunks,
                   failed_chunks, workers, gen_pc, new_chunks, files, kills, smartVars,
                   calc>>

\* ThreadPoolExecutor.__exit__ is shutdown(wait=True): the process ends
\* with status 130 once every work item, the queued ones too, has run.
SmartExit ==
    /\ main_pc = "exiting"
    /\ \A k \in DOMAIN futures : futures[k] \notin {"queued", "running"}
    /\ main_pc' = "exited"
    /\ UNCHANGED <<tree, faults, MAX_CONTAINERS, scanVars, storeVars, instVars, planVars,
                   received_signal, pending_chunks, unfinished_tasks, active_containers,
                   completed_chunks, failed_chunks, workers, gen_pc, new_chunks,
                   containers, files, kills, smartVars, calc>>

SmartNext ==
    \/ SmartRaise
    \/ SmartStart
    \/ \E i \in Threads : SmartTake(i)
    \/ \E i \in Threads : SmartStartContainer(i)
    \/ \E i \in Threads : SmartPoll(i)
    \/ SmartCollect
    \/ SmartReturn
    \/ SmartSignal
    \/ SmartExit
    \/ \E c \in DOMAIN containers : ContainerExit(c)

-----------------------------------------------------------------------------
(* The container names of pairs of chunk paths.                            *)

modelVars == <<tree, faults, MAX_CONTAINERS, scanVars, storeVars, instVars, planVars,
               orchVars, smartVars>>

\* Chunk paths are spelled "/" and then up to MaxPathChars characters.
MaxPathChars == 3
PathChars == {"a", "_", " ", "/"}

\* os.path.join gives no empty name: no "/" at the end or after a "/".
IsPathString(str) ==
    /\ Len(str) >= 2
    /\ str[1] = "/"
    /\ str[Len(str)] # "/"
    /\ \A i \in 1..(Len(str) - 1) : ~(str[i] = "/" /\ str[i + 1] = "/")

NamePaths ==
    {str \in {<<"/">> \o tail : tail \in UNION {[1..n -> PathChars] : n \in 1..MaxPathChars}} :
        IsPathString(str)}

NamesInit ==
    /\ ProgIdle
    /\ ScanIdle
    /\ faults = {}
    /\ \E a, b \in NamePaths : calc = [pc |-> "paths", a |-> a, b |-> b]

\* start_container(chunk) of either orchestrator, up to the container name,
\* for a chunk of path a and for a chunk of path b.
NameContainers ==
    /\ calc.pc = "paths"
    /\ calc' = [pc |-> "names", a |-> calc.a, b |-> calc.b,
                progressive_a |-> ContainerNameOf(ProgressivePrefix, calc.a,
                                                  ProgressiveNameTail),
                progressive_b |-> ContainerNameOf(ProgressivePrefix, calc.b,
                                                  ProgressiveNameTail),
                smart_a |-> ContainerNameOf(SmartPrefix, calc.a, SmartNameTail),
                smart_b |-> ContainerNameOf(SmartPrefix, calc.b, SmartNameTail)]
    /\ UNCHANGED modelVars

NamesNext == NameContainers

-----------------------------------------------------------------------------
(* calculate_checksum on file contents (nas_scanner_hp.py).  Sizes are     *)
(* scaled down: SampleLen bytes stand for SAMPLE_SIZE and LargeLen bytes   *)
(* for LARGE_FILE_THRESHOLD; as in the program, a file above the threshold *)
(* is long enough for three samples that do not overlap.                   *)

SampleLen == 2
LargeLen == 6
\* The longest file contents looked at, and the values of a byte.
MaxFileLen == 8
ByteValues == {0, 1}

\* hashlib.blake2b().hexdigest() after the updates: one digest per sequence
\* of hashed bytes (the updates of one hash object concatenate).
Blake2b(bytes) == [kind |-> "hexdigest", of |-> bytes]
NoChecksum == [kind |-> "None", of |-> <<>>]
EmptyChecksum == [kind |-> "empty", of |-> <<>>]

\* f.seek(pos); f.read(n): at most n bytes, fewer at the end of the file.
ReadAt(content, pos, n) ==
    SubSeq(content, pos + 1, IF pos + n < Len(content) THEN pos + n ELSE Len(content))

\* A sampling that takes the middle sample at a third of the size.
CalculateChecksumBytes_MiddleAtThird(content, size, readable) ==
    IF ~readable THEN NoChecksum
    ELSE IF size > LargeLen
    THEN IF Len(content) < SampleLen THEN NoChecksum
         ELSE Blake2b(ReadAt(content, 0, SampleLen)
                      \o ReadAt(content, size \div 3, SampleLen)
                      \o ReadAt(content, Len(content) - SampleLen, Len(content)))
    ELSE Blake2b(content)

\* A checksum over the full content of every file.
CalculateChecksumBytes_FullContent(content, size, readable) ==
    IF ~readable THEN NoChecksum ELSE Blake2b(content)

\* calculate_checksum(filepath, size) for a file of the given content; size
\* is the st_size the caller passes.  seek(-SAMPLE_SIZE, 2) raises on a
\* file shorter than the sample, and any exception gives None.
CalculateChecksumBytes(content, size, readable) ==
    IF ~readable THEN NoChecksum
    ELSE IF size > LargeLen
    THEN IF Len(content) < SampleLen THEN NoChecksum
         ELSE Blake2b(ReadAt(content, 0, SampleLen)
                      \o ReadAt(content, size \div 2, SampleLen)
                      \o ReadAt(content, Len(content) - SampleLen, Len(content)))
    ELSE Blake2b(content)

\* scan_directory: file_info['checksum'] of a file of the given content.
FileChecksum(content) ==
    IF Len(content) > 0 THEN CalculateChecksumBytes(content, Len(content), TRUE)
    ELSE EmptyChecksum

FileContents(n) == [1..n -> ByteValues]

\* Two files of the same size.
ChecksumInit ==
    /\ ProgIdle
    /\ ScanIdle
    /\ faults = {}
    /\ \E n \in 0..MaxFileLen : \E a, b \in FileContents(n) :
          calc = [pc |-> "files", a |-> a, b |-> b]

\* scan_directory on the two files, up to their checksums.
HashFiles ==
    /\ calc.pc = "files"
    /\ calc' = [pc |-> "hashed", a |-> calc.a, b |-> calc.b,
                checksum_a |-> FileChecksum(calc.a),
                checksum_b |-> FileChecksum(calc.b)]
    /\ UNCHANGED modelVars

ChecksumNext == HashFiles

-----------------------------------------------------------------------------
(* check_existing_data over stores of every history: a scanner is          *)
(* constructed over a database file that exists or not, the store is       *)
(* created and written, and the scanner checks it for one mount.           *)

ResumePaths == {R \o <<"a">>, R \o <<"b">>}

ResumeInit ==
    /\ tree = RootOnlyTree
    /\ faults = {"store"}
    /\ MAX_CONTAINERS = 1
    /\ scanned_dirs = {}
    /\ db_file \in BOOLEAN
    /\ database_exists = db_file
    /\ scanned_chunks = {}
    /\ processed_paths = {}
    /\ sample_cache = EmptyCache
    /\ plan_pc = [at |-> "new", mount_name |-> MountName, read_ok |-> TRUE]
    /\ cur_plans = NoPlans
    /\ prev_plans = NoPlans
    /\ marked = {}
    /\ OrchIdle
    /\ files = {}
    /\ ScanIdle
    /\ SmartIdle
    /\ calc = NoCalc

resumeRest == <<tree, faults, MAX_CONTAINERS, cur_plans, prev_plans, marked, orchVars, smartVars, calc, fs, scan_pc, shutdown,
                directories, results, result_idx, batch, files_scanned, save_errors,
                exit_status, scan_run, io_errors>>

\* ProgressiveScanner(db_path, ...): database_exists = os.path.exists(db_path)
ResumeNewScanner ==
    /\ plan_pc.at = "checked"
    /\ database_exists' = db_file
    /\ scanned_chunks' = {}
    /\ plan_pc' = [plan_pc EXCEPT !.at = "new"]
    /\ UNCHANGED <<storeVars, processed_paths, sample_cache, files_table, resumeRest>>

\* create_scan_database: the file and its empty tables
ResumeCreate ==
    /\ ~db_file
    /\ db_file' = TRUE
    /\ UNCHANGED <<scanned_dirs, instVars, plan_pc, files_table, resumeRest>>

\* mark_chunk_scanned(chunk_path, mount_name) on the created store
ResumeMark ==
    /\ db_file
    /\ \E chunk_path \in ResumePaths, mount_name \in MountNames, write_ok \in StoreOutcomes :
          scanned_dirs' = MarkChunkScanned(scanned_dirs, chunk_path, mount_name, write_ok)
    /\ UNCHANGED <<db_file, instVars, plan_pc, files_table, resumeRest>>

\* A worker saves a file record of a mount.
ResumeSaveFiles ==
    /\ db_file
    /\ \E mount_name \in MountNames :
          files_table' = InsertOrReplace(files_table,
                             FileInfo(<<mount_name>>, Entry("f", "file", SmallSize, 1), mount_name, 0,
                                      NoFailure))
    /\ UNCHANGED <<storeVars, instVars, plan_pc, resumeRest>>

\* check_existing_data(mount_name), once per scanner
ResumeCheck ==
    /\ plan_pc.at = "new"
    /\ \E mount_name \in MountNames, read_ok \in StoreOutcomes :
          /\ scanned_chunks' =
                CheckExistingData(database_exists, scanned_dirs,
                                  \E r \in files_table : r.mount_point = mount_name,
                                  mount_name, read_ok, scanned_chunks)
          /\ plan_pc' = [at |-> "checked", mount_name |-> mount_name, read_ok |-> read_ok]
    /\ UNCHANGED <<storeVars, database_exists, processed_paths, sample_cache, files_table,
                   resumeRest>>

ResumeNext ==
    \/ ResumeNewScanner
    \/ ResumeCreate
    \/ ResumeMark
    \/ ResumeSaveFiles
    \/ ResumeCheck

vars == <<tree, faults, MAX_CONTAINERS, scanned_dirs, db_file, database_exists, scanned_chunks,
          processed_paths, sample_cache, plan_pc, cur_plans, prev_plans, marked,
          main_pc, pending_chunks, unfinished_tasks, active_containers,
          completed_chunks, failed_chunks, workers, gen_pc, new_chunks,
          containers, files, kills, received_signal, scanVars, smartVars, calc>>

SpecPlan == PlanInit /\ [][PlanNext]_vars

Spec == Init /\ [][Next]_vars

SpecSignal == SignalInit /\ [][SignalNext]_vars

SpecScan == ScanInit /\ [][ScanNext]_vars

SpecStore == StoreInit /\ [][StoreNext]_vars

SpecSmart == SmartInit /\ [][SmartNext]_vars

SpecNames == NamesInit /\ [][NamesNext]_vars

SpecChecksum == ChecksumInit /\ [][ChecksumNext]_vars

SpecResume == ResumeInit /\ [][ResumeNext]_vars

\* Every thread that can take a step eventually takes one, and every worker
\* process eventually ends.
FairSpec ==
    /\ FairInit
    /\ [][RunNext]_vars
    /\ \A i \in 1..MaxThreads :
          /\ WF_vars(i \in Threads /\ GetChunk(i))
          /\ WF_vars(i \in Threads /\ StartContainer(i))
          /\ WF_vars(i \in Threads /\ PollContainer(i))
    /\ WF_vars(GenCheck) /\ WF_vars(GenPut) /\ WF_vars(ScanStart)
    /\ WF_vars(ScanRaise) /\ WF_vars(ScanReturn)
    /\ WF_vars(\E c \in DOMAIN containers : ContainerExit(c))

\* Every thread that can take a step eventually takes one; a worker process
\* may run for ever (nothing in the code makes a container end).
FairSpecHang ==
    /\ FairInit
    /\ [][RunNext]_vars
    /\ \A i \in 1..MaxThreads :
          /\ WF_vars(i \in Threads /\ GetChunk(i))
          /\ WF_vars(i \in Threads /\ StartContainer(i))
          /\ WF_vars(i \in Threads /\ PollContainer(i))
    /\ WF_vars(GenCheck) /\ WF_vars(GenPut) /\ WF_vars(ScanStart)
    /\ WF_vars(ScanRaise) /\ WF_vars(ScanReturn)

-----------------------------------------------------------------------------
(* Properties of planning (SpecPlan).                                      *)

PlannedCompleted(plan) == ChunkPaths(plan.chunks) \cap plan.loaded

ListedTopLevel(t) ==
    IF t.listable
    THEN {p \in Range(t.dirs) : Len(p) = Len(t.root) + 1 /\ p[Len(p)] \notin HiddenNames}
    ELSE {}

ResumedAfterMarks ==
    /\ plan_pc.inst = 2
    /\ cur_plans.initial.made
    /\ cur_plans.initial.read_ok
    /\ prev_plans.initial.made
    /\ prev_plans.initial.store = {}
    /\ marked # {}

\* C9: after a fresh initial plan, marking a non-empty subset of its chunks
\* and planning again with a new instance over the same database gives
\* strictly fewer chunks: exactly the unmarked non-hidden top-level
\* directories, each once.
C9_ResumeSkipsMarked ==
    ResumedAfterMarks =>
        /\ marked \subseteq ChunkPaths(prev_plans.initial.chunks)
        /\ ChunkPaths(cur_plans.initial.chunks) = ListedTopLevel(tree) \ marked
        /\ Len(cur_plans.initial.chunks) = Cardinality(ListedTopLevel(tree) \ marked)
        /\ Len(cur_plans.initial.chunks) < Len(prev_plans.initial.chunks)

\* Two chunks were planned, one was marked, the other one is planned again.
C9_Witness ==
    /\ ResumedAfterMarks
    /\ Len(prev_plans.initial.chunks) = 2
    /\ Cardinality(marked) = 1
    /\ Len(cur_plans.initial.chunks) = 1

-----------------------------------------------------------------------------
(* Properties of a run (Spec, FairSpec).                                   *)

ThisRun == {c \in DOMAIN containers : containers[c].run = kills}

Holding == {i \in Threads : workers[i].pc \in {"start", "wait"}}

\* C1: the number of worker containers of the run that were launched and
\* have not terminated is at most MAX_CONTAINERS.
C1_RunningWithinCap ==
    Cardinality(Running \cap ThisRun) <= MAX_CONTAINERS

\* C2: each chunk path is in one state at a time: never twice in the pending
\* queue, never pending while a thread works on it, never worked on by two
\* threads, never pending after it was recorded completed in this run.
C2_ChunkInOneState ==
    /\ \A i, j \in DOMAIN pending_chunks :
          i # j => pending_chunks[i].chunk.path # pending_chunks[j].chunk.path
    /\ \A i \in Holding : workers[i].chunk.path \notin QueuePaths(pending_chunks)
    /\ \A i, j \in Holding : i # j => workers[i].chunk.path # workers[j].chunk.path
    /\ \A c \in ThisRun :
          containers[c].result = "completed"
             => containers[c].path \notin QueuePaths(pending_chunks)

\* C3: with no shutdown, and every worker terminating, scan_mount_point
\* eventually returns (or raises before any work was dispatched).
C3_ScanEventuallyReturns ==
    <>(main_pc \in {"returned", "raised"})

\* C4: a worker that ended with exit status 0 and that no thread waits for
\* any more (nothing will look at it again) had its chunk path recorded in
\* scanned_dirs under its mount name, was counted completed, and its handle
\* is gone from the active set.
C4_ExitZeroIsRecorded ==
    \A c \in ThisRun :
       (/\ containers[c].status = "exited"
        /\ containers[c].exit_code = 0
        /\ ~\E i \in Threads : workers[i].pc = "wait" /\ workers[i].cid = c)
       => /\ [path |-> containers[c].path, mount_point |-> containers[c].mount_name]
                \in scanned_dirs
          /\ containers[c].result = "completed"
          /\ c \notin DOMAIN active_containers

\* C5: a row is added to scanned_dirs only for the path of a worker that has
\* terminated with exit status 0, and no worker that failed to start, still
\* runs, or ended with another status is taken as completed.
C5_RecordedOnlyAfterExitZero ==
    /\ \A r \in scanned_dirs :
          (\E c \in DOMAIN containers : containers[c].path = r.path) =>
             \E c \in DOMAIN containers :
                /\ containers[c].path = r.path
                /\ containers[c].mount_name = r.mount_point
                /\ containers[c].status = "exited"
                /\ containers[c].exit_code = 0
    /\ \A c \in DOMAIN containers :
          containers[c].result = "completed"
             => containers[c].status = "exited" /\ containers[c].exit_code = 0

\* Nothing is pending, held by a thread or about to be put, and no worker of
\* any run is running.
Quiescent ==
    /\ main_pc = "running"
    /\ pending_chunks = <<>>
    /\ Holding = {}
    /\ gen_pc = "done"
    /\ Running = {}

Attempts(path) == {c \in ThisRun : containers[c].path = path}

\* C6: when the run has nothing left to do, a chunk all of whose attempts
\* failed has been attempted MAX_RETRIES + 1 times.
C6_FailingChunkRetried ==
    Quiescent =>
       \A c \in ThisRun :
          (\A d \in Attempts(containers[c].path) : containers[d].result = "failed")
             => Cardinality(Attempts(containers[c].path)) = MAX_RETRIES + 1

\* C7: chunks are not left on the pending queue with no processor thread
\* alive to dequeue them.
C7_NoChunkStranded ==
    (\A i \in Threads : workers[i].pc = "done") => pending_chunks = <<>>

\* The directories whose files the workers of a set of chunks record.
Covered(t, paths) == UNION {Range(SubtreeSeq(t, p)) : p \in paths}

\* The file records an uninterrupted run over an empty store ends with: those
\* of the initial chunks and of any of the adaptive chunks (how many of the
\* adaptive chunks a run makes depends on its timing).
UninterruptedFileSets(t) ==
    LET g == GenerateInitialChunks(t, {}, {})
        a == GenerateAdaptiveChunks(t, {}, g.processed, EmptyCache,
                                    Len(t.dirs) + 1, {})
    IN {Covered(t, ChunkPaths(g.chunks) \cup extra) : extra \in SUBSET ChunkPaths(a.chunks)}

\* C10: a run that was killed and started again over the same store ends
\* with the file records an uninterrupted run ends with.
C10_SameFilesAfterRestart ==
    (kills > 0 /\ Quiescent) => files \in UninterruptedFileSets(tree)

\* Runs that are never killed, over a store that reads and writes, do end
\* with one of these sets: the difference C10 is about comes from the kill.
UninterruptedRunsAgree ==
    (kills = 0 /\ Quiescent /\ faults \subseteq {"kill"} /\ scanned_chunks \subseteq Range(tree.dirs))
        => files \in UninterruptedFileSets(tree)

\* Thread i's start_container fails in this step: the docker run it makes
\* for its chunk does not start a container.
LaunchFails(i) ==
    /\ workers[i].pc = "start"
    /\ NewId(workers[i].chunk.path) \in DOMAIN containers' \ DOMAIN containers
    /\ containers'[NewId(workers[i].chunk.path)].status = "failed_to_start"

\* C14: when launching a worker for a chunk fails, the chunk is counted
\* failed at once, no handle is registered for it, and it is put back on the
\* pending queue.
C14_LaunchFailureRetried ==
    [][\A i \in Threads :
          LaunchFails(i) =>
             /\ failed_chunks' = failed_chunks + 1
             /\ DOMAIN active_containers' = DOMAIN active_containers
             /\ workers[i].chunk.path \in QueuePaths(pending_chunks')]_vars

-----------------------------------------------------------------------------
(* Properties of a run that receives a signal (SpecSignal).                *)

\* C11: once SIGINT or SIGTERM has been received no further worker is
\* launched: no step after the signal adds a running container.
C11_NoLaunchAfterSignal ==
    [][received_signal # "none" => Running' \subseteq Running]_vars

\* C12: after a signal, when the orchestrator has exited, no worker the run
\* launched is still running.
C12_NoWorkerSurvivesExit ==
    (received_signal # "none" /\ main_pc \in {"killed", "raised"}) => Running = {}

\* C13: the orchestrator never waits without bound on one worker: a thread
\* that waits for a worker stops waiting, also when the worker never ends
\* by itself (it is then terminated and its chunk counted failed).
C13_WaitIsBounded ==
    \A i \in 1..MaxThreads :
       (i \in Threads /\ workers[i].pc = "wait")
          ~> (i \in Threads /\ workers[i].pc # "wait")

-----------------------------------------------------------------------------
(* Properties of the scan worker (SpecScan).                               *)

\* The regular files in the chunk directory and in every directory below it.
RegularFiles(f) ==
    UNION {{d \o <<f.entries[d][i].name>> :
               i \in {j \in 1..Len(f.entries[d]) : f.entries[d][j].kind = "file"}} :
           d \in DOMAIN f.entries}

\* The worker process has ended with exit status 0.
ExitedZero == scan_pc = "exited" /\ exit_status = "0"

\* The paths this worker process has rows for in the files table.
WrittenNow == {r.path : r \in {x \in files_table : x.scan_time = scan_run}}

\* C15: the worker ends with exit status 0 only on full success: every
\* regular file under the chunk was recorded by it (no directory or file was
\* skipped, no batch write failed, no shutdown cut the processing short).
C15_ExitZeroOnlyOnFullSuccess ==
    ExitedZero => RegularFiles(fs) \subseteq WrittenNow

\* The records pool.map returned to this worker process.
ResultRecords == UNION {Range(results[i]) : i \in 1..Len(results)}

\* C16: a failed batch write does not crash the worker, and no record of a
\* failed batch is lost: when the worker has ended, every record it read is
\* in the files table.
C16_FailedBatchNotLost ==
    (scan_pc = "exited" /\ faults = {"save"} /\ save_errors > 0) =>
        /\ exit_status = "0"
        /\ \A rec \in ResultRecords : rec \in files_table

RECURSIVE Flatten(_)
Flatten(lists) == IF lists = <<>> THEN <<>> ELSE Head(lists) \o Flatten(Tail(lists))

\* The rows one complete run of the worker over the chunk writes to an
\* empty table.
CompleteRun(f, now) ==
    LET dirs == Walk(f, ChunkRoot, {})
    IN ExecuteMany({}, Flatten([i \in 1..Len(dirs) |->
                                   ScanDirectory(f, dirs[i], MountName, now, NoFailure)]))

\* A row without its scan_time.
StripTime(rows) ==
    {[path |-> r.path, size |-> r.size, checksum |-> r.checksum,
      mount_point |-> r.mount_point, n |-> r.n] : r \in rows}

\* C17: whatever batches were written, twice or after a crash, the files
\* table holds at most one row per path; and when a run of the worker has
\* completed, after runs that were killed or completed, the rows are those
\* of one complete run, scan_time aside.
C17_UpsertConverges ==
    /\ \A r1, r2 \in files_table : r1.path = r2.path => r1 = r2
    /\ (ExitedZero /\ faults \subseteq {"crash"})
          => StripTime(files_table) = StripTime(CompleteRun(fs, scan_run))

\* The second run of the worker, after a first run that was killed between
\* its batches, has written the first batch again and not yet the last.
C17_Witness ==
    /\ faults = {"crash"}
    /\ fs = BulkFs
    /\ scan_run = 2
    /\ scan_pc = "final"
    /\ \E r \in files_table : r.path = ChunkRoot \o <<"d", "g">> /\ r.scan_time = 2
    /\ ~\E r \in files_table : r.path = ChunkRoot \o <<"e", "h">>

\* C19: with no read or write error and no shutdown, when the worker has
\* ended on a chunk the files table holds exactly one row for every regular
\* file in the chunk directory and in every directory below it, and no row
\* for anything else (a directory, a symbolic link).
C19_ExactlyTheRegularFiles ==
    (ExitedZero /\ faults = {}) =>
        /\ \A p \in RegularFiles(fs) : Cardinality({r \in files_table : r.path = p}) = 1
        /\ \A r \in files_table : r.path \in RegularFiles(fs)

\* The worker has ended on the tree that holds an empty file, links to a
\* file and to a directory, a hidden directory and nested directories: the
\* files two levels down and in the hidden directory have their rows.
C19_Witness ==
    /\ ExitedZero
    /\ faults = {}
    /\ fs = FullFs
    /\ \E r \in files_table : r.path = ChunkRoot \o <<"d", "e", "h">>
    /\ \E r \in files_table : r.path = ChunkRoot \o <<".s", "k">>
    /\ \E r \in files_table : r.path = ChunkRoot \o <<"f0">> /\ r.checksum = "empty"

\* The directory an entry is in.
DirectoryOf(p) == SubSeq(p, 1, Len(p) - 1)

\* One read error, on an entry or on a directory, and nothing else wrong.
EntryFaults == {"stat", "checksum", "scandir", "walk"}

\* The worker does not abort on a read error, and a file that cannot be read
\* has its row, with a null checksum.
ErrorsAreSkipped ==
    /\ (scan_pc = "exited" /\ fs.exists /\ faults \subseteq EntryFaults) => exit_status = "0"
    /\ (ExitedZero /\ faults \subseteq EntryFaults) =>
          \A p \in io_errors.read \cap RegularFiles(fs) :
             \E r \in files_table :
                /\ r.path = p
                /\ r.checksum = IF r.size > 0 THEN "None" ELSE "empty"

\* C20 as stated: a read error on one entry or on one directory omits only
\* that entry, or the files of that directory: every other regular file of
\* the chunk has its row, the worker does not abort, and a file whose
\* checksum cannot be computed has its row with a null checksum.
C20_OnlyTheFailedOneOmitted ==
    /\ ErrorsAreSkipped
    /\ (ExitedZero /\ faults \subseteq EntryFaults) =>
          \A p \in RegularFiles(fs) \ WrittenNow :
             \/ p \in io_errors.stat
             \/ DirectoryOf(p) \in (io_errors.scandir \cup io_errors.walk)

\* C20, amended: a directory whose listing fails while the tree is walked
\* is omitted together with every directory below it.
C20_OnlyTheFailedSubtreeOmitted ==
    /\ ErrorsAreSkipped
    /\ (ExitedZero /\ faults \subseteq EntryFaults) =>
          \A p \in RegularFiles(fs) \ WrittenNow :
             \/ p \in io_errors.stat
             \/ DirectoryOf(p) \in (io_errors.scandir \cup io_errors.walk)
             \/ \E d \in io_errors.walk : IsBelow(d, DirectoryOf(p))

\* The large file cannot be read: the worker has ended with status 0, the
\* file has its row with a null checksum and every other file has its row.
C20_Witness ==
    /\ ExitedZero
    /\ faults = {"checksum"}
    /\ fs = FullFs
    /\ io_errors.read = {ChunkRoot \o <<"d", "g">>}
    /\ \E r \in files_table : r.path = ChunkRoot \o <<"d", "g">> /\ r.checksum = "None"
    /\ RegularFiles(fs) \subseteq WrittenNow

-----------------------------------------------------------------------------
(* Properties of the scanned_dirs table (SpecStore).                       *)

\* C18: get_scanned_chunks(m) is exactly the set of paths whose latest mark
\* without a store error was for mount m; a path marked once or more has
\* exactly one row; and a new scanner instance that reads the store of
\* mount m loads exactly that set.
C18_MarkThenGet ==
    /\ [](/\ \A m \in MountNames :
              GetScannedChunks(scanned_dirs, m, TRUE) = {p \in StorePaths : marked[p] = m}
          /\ \A p \in StorePaths :
                marked[p] # "none" => Cardinality({r \in scanned_dirs : r.path = p}) = 1)
    /\ [][(marked' = marked /\ plan_pc'.at = "loaded" /\ plan_pc'.read_ok)
             => scanned_chunks' = {p \in StorePaths : marked[p] = plan_pc'.mount_name}]_vars

\* A path was marked for one mount and then for the other, and a new
\* instance has loaded the set of the second mount, which holds the path.
C18_Witness ==
    /\ plan_pc.at = "loaded"
    /\ plan_pc.read_ok
    /\ plan_pc.mount_name = OtherMountName
    /\ marked[R \o <<"a">>] = OtherMountName
    /\ marked[R \o <<"b">>] = MountName
    /\ scanned_chunks = {R \o <<"a">>}

-----------------------------------------------------------------------------
(* Properties of the runs of the size-based orchestrator (SpecSmart).      *)

\* C21: when the root path does not exist or cannot be listed as the run
\* starts, or the checkpoint store cannot be created, scan_mount_point
\* raises before a chunk is planned or submitted and before a worker is
\* launched.
C21_FatalBeforeAnyWork ==
    (\/ ~tree.exists
     \/ tree.root \in tree.unlistable
     \/ (main_pc # "init" /\ ~db_file))
       => /\ main_pc \in {"init", "raised"}
          /\ smart_chunks = <<>>
          /\ futures = <<>>
          /\ DOMAIN containers = {}

\* C22: no worker is launched for a chunk whose path, when the launch is
\* made, does not exist, cannot be listed or is empty.
C22_NoLaunchOnBadPath ==
    [][\A c \in DOMAIN containers' \ DOMAIN containers :
          containers'[c].status = "running" =>
             /\ tree.exists
             /\ containers'[c].path \in Range(tree.dirs)
             /\ containers'[c].path \notin tree.unlistable
             /\ ~IsEmptyDir(tree, containers'[c].path)]_vars

-----------------------------------------------------------------------------
(* Properties of the container names (SpecNames).                          *)

\* C23: two different chunk paths never get the same container name, from
\* either orchestrator.
C23_NamesAreUnique ==
    (calc.pc = "names" /\ calc.a # calc.b) =>
        /\ calc.progressive_a # calc.progressive_b
        /\ calc.smart_a # calc.smart_b

-----------------------------------------------------------------------------
(* Properties of the dispatch order (Spec).                                *)

RecordedPlans == {p \in {cur_plans.initial, cur_plans.adaptive_first,
                         cur_plans.adaptive_last} : p.made}

StartedPaths == {containers[c].path : c \in DOMAIN containers}

\* C24: when start_container is called for a chunk, every chunk that the
\* same planning call returned with a strictly larger estimate has been
\* started before.
C24_LargestFirst ==
    [][\A i \in Threads :
          (workers[i].pc = "start" /\ workers'[i].pc # "start") =>
             \A p \in RecordedPlans : \A j, k \in DOMAIN p.chunks :
                (/\ p.chunks[j].path = workers[i].chunk.path
                 /\ p.chunks[k].estimated_files > p.chunks[j].estimated_files)
                   => p.chunks[k].path \in StartedPaths]_vars

-----------------------------------------------------------------------------
(* Properties of the counters of the size-based orchestrator (SpecSmart).  *)

\* C33: when scan_mount_point returns, completed_chunks is the number of
\* chunks whose container exited 0, failed_chunks the number of the other
\* chunks, and together they do not exceed the chunks dispatched.
C33_CountersCountChunksOnce ==
    main_pc = "returned" =>
        LET exited_zero == {c \in DOMAIN containers : containers[c].result = "completed"}
        IN /\ completed_chunks = Cardinality(exited_zero)
           /\ failed_chunks = Len(smart_chunks) - Cardinality(exited_zero)
           /\ completed_chunks + failed_chunks <= Len(smart_chunks)

\* C34: active_containers holds no handle of a container that has been
\* classified completed or failed, and none of a container that is no
\* longer running once the run has ended.
C34_HandlesOnlyOfRunning ==
    \A c \in DOMAIN active_containers :
       /\ containers[c].result = "none"
       /\ main_pc \in {"returned", "exited"} => containers[c].status = "running"

-----------------------------------------------------------------------------
(* Properties of the plans of the size-based orchestrator (SpecSmart).     *)

\* C25: every chunk of the size-based plan is a directory of at most the
\* target size, or one without subdirectories, or one that cannot be
\* listed.
C25_ChunkOnlyIfSmallOrLeaf ==
    ~skip_analysis =>
        \A i \in DOMAIN smart_chunks :
           \/ smart_chunks[i].size_gb <= CHUNK_SIZE_GB
           \/ Subdirs(tree, smart_chunks[i].path) = <<>>
           \/ smart_chunks[i].path \in tree.unlistable

\* The top-level subdirectories of the root that a listing of it gives.
TopLevelListed ==
    IF tree.root \in tree.unlistable THEN {} ELSE Range(Subdirs(tree, tree.root))

\* C26: with fast start the plan is made without any size probe, it holds
\* exactly one chunk for each top-level subdirectory of the root, or the
\* root alone when there is none or the root cannot be listed, and it is
\* never empty.
C26_FastStartPlan ==
    (skip_analysis /\ main_pc \notin {"init", "raised"}) =>
        /\ size_probes = {}
        /\ smart_chunks # <<>>
        /\ \A i, j \in DOMAIN smart_chunks :
              smart_chunks[i].path = smart_chunks[j].path => i = j
        /\ {smart_chunks[i].path : i \in DOMAIN smart_chunks} =
              (IF TopLevelListed = {} THEN {tree.root} ELSE TopLevelListed)

C26_Witness ==
    /\ skip_analysis
    /\ main_pc = "running"
    /\ Len(smart_chunks) >= 3
    /\ \E i \in DOMAIN smart_chunks : IsHidden(smart_chunks[i].path[Len(smart_chunks[i].path)])

\* C31: every directory of the tree that holds regular files lies at or
\* below the path of a chunk of the plan.
C31_PlanCoversTree ==
    main_pc = "running" =>
        \A d \in Range(tree.dirs) :
           tree.count[d] > 0 =>
              \E i \in DOMAIN smart_chunks :
                 \/ smart_chunks[i].path = d
                 \/ IsBelow(smart_chunks[i].path, d)

-----------------------------------------------------------------------------
(* Properties of the adaptive plans (SpecPlan).                            *)

C37_PlanningKeepsCompletedSet ==
    [][(\/ plan_pc.at = "plan" /\ plan_pc'.at = "planned"
        \/ plan_pc.at = "planned" /\ plan_pc'.adaptive = plan_pc.adaptive + 1) =>
          /\ scanned_chunks' = scanned_chunks
          /\ scanned_dirs' = scanned_dirs]_vars

-----------------------------------------------------------------------------
(* Properties of the checksums (SpecChecksum).                             *)

\* C28: the checksum of an empty file is the sentinel "empty"; of a file of
\* at most the threshold, the hash of its whole content; of a larger file,
\* the hash of three samples: the first SampleLen bytes, the SampleLen bytes
\* from offset size/2, and the last SampleLen bytes.
C28_ChecksumBySize ==
    calc.pc = "hashed" =>
        LET content == calc.a
            size == Len(content)
            half == size \div 2
        IN calc.checksum_a =
              IF size = 0 THEN EmptyChecksum
              ELSE IF size <= LargeLen THEN Blake2b(content)
              ELSE Blake2b(SubSeq(content, 1, SampleLen)
                           \o SubSeq(content, half + 1, half + SampleLen)
                           \o SubSeq(content, size - SampleLen + 1, size))

C28_Witness ==
    /\ calc.pc = "hashed"
    /\ Len(calc.a) > LargeLen
    /\ calc.checksum_a.kind = "hexdigest"
    /\ Len(calc.checksum_a.of) = 3 * SampleLen
    /\ calc.checksum_a # Blake2b(calc.a)

\* The positions of the bytes a sampled checksum reads.
SampledPositions(size) ==
    (1..SampleLen) \cup ((size \div 2 + 1)..(size \div 2 + SampleLen))
       \cup ((size - SampleLen + 1)..size)

DifferingPositions == {i \in DOMAIN calc.a : calc.a[i] # calc.b[i]}

\* C29: files of identical content have identical checksums; two files
\* above the threshold, of the same size, have the same checksum when they
\* differ outside the sampled positions only, and different checksums when
\* they differ at a sampled position.
C29_ChecksumDependsOnSamples ==
    calc.pc = "hashed" =>
        /\ calc.a = calc.b => calc.checksum_a = calc.checksum_b
        /\ Len(calc.a) > LargeLen =>
              (calc.checksum_a = calc.checksum_b
                  <=> DifferingPositions \cap SampledPositions(Len(calc.a)) = {})

C29_Witness ==
    /\ calc.pc = "hashed"
    /\ Len(calc.a) > LargeLen
    /\ calc.a # calc.b
    /\ calc.checksum_a = calc.checksum_b
    /\ calc.checksum_a.kind = "hexdigest"

-----------------------------------------------------------------------------
(* Properties of check_existing_data (SpecResume).                         *)

\* The store holds a files row or a scanned_dirs row of the mount.
HoldsDataFor(mount_name) ==
    \E r \in scanned_dirs \cup files_table : r.mount_point = mount_name

\* C30: check_existing_data(m) loads the completed set exactly when the
\* database file existed as the scanner was constructed, the store can be
\* read and it holds a files row or a scanned_dirs row of m; the set loaded
\* is the set of the scanned_dirs paths of m.  In every other case the
\* completed set stays empty.
C30_LoadsExactlyOnExistingData ==
    [][(plan_pc.at = "new" /\ plan_pc'.at = "checked") =>
          scanned_chunks' =
             IF database_exists /\ plan_pc'.read_ok /\ HoldsDataFor(plan_pc'.mount_name)
             THEN {r.path : r \in {x \in scanned_dirs : x.mount_point = plan_pc'.mount_name}}
             ELSE {}]_vars

\* A scanner constructed over an existing database has loaded the one
\* completed path of its mount, next to a path of the other mount.
C30_Witness ==
    /\ plan_pc.at = "checked"
    /\ database_exists
    /\ plan_pc.mount_name = MountName
    /\ scanned_chunks = {R \o <<"a">>}
    /\ \E r \in scanned_dirs : r.mount_point = OtherMountName

-----------------------------------------------------------------------------
(* Properties of the adaptive generator in a run (Spec).                   *)

\* The paths of the chunks that are pending, active or completed.
ChunksInHand ==
    QueuePaths(pending_chunks) \cup {active_containers[c].path : c \in DOMAIN active_containers}
       \cup scanned_chunks

\* C32: no chunk that a call of generate_adaptive_chunks returns is equal
\* to, or lies below, a chunk that is pending, active or completed.
C32_AdaptiveFromFrontier ==
    [][(gen_pc = "check" /\ gen_pc' = "put") =>
          \A k \in DOMAIN new_chunks' : \A d \in ChunksInHand :
             /\ d # new_chunks'[k].path
             /\ ~IsBelow(d, new_chunks'[k].path)]_vars

\* The generator leaves its loop although no shutdown is requested.
GeneratorStops == gen_pc = "check" /\ gen_pc' = "done" /\ ~shutdown_requested

\* C35: the generator does not stop while a processor thread holds a chunk
\* it took from the queue and has not started its container yet, and it
\* puts no chunk into the queue when every processor thread has stopped.
C35_GeneratorCoversTheRun ==
    [][/\ GeneratorStops => \A i \in Threads : workers[i].pc # "start"
       /\ (gen_pc = "put" /\ Len(pending_chunks') > Len(pending_chunks))
             => \E i \in Threads : workers[i].pc # "done"]_vars

-----------------------------------------------------------------------------
(* Properties of the completed set in a run (Spec).                        *)

\* C36: every path of scanned_chunks has a row in scanned_dirs for the
\* mount.
C36_CompletedSetIsStored ==
    scanned_chunks \subseteq GetScannedChunks(scanned_dirs, MountName, TRUE)

-----------------------------------------------------------------------------
(* Properties of the pending queue in a run (Spec).                        *)

\* C38: no two entries of the pending queue have the same priority.
C38_PrioritiesAreDistinct ==
    \A i, j \in DOMAIN pending_chunks :
       pending_chunks[i].priority = pending_chunks[j].priority => i = j

-----------------------------------------------------------------------------
(* Properties of the batches of the scan worker (SpecScan).                *)

\* The number of file records in pool.map's results.
RECURSIVE RecordsReturned(_)
RecordsReturned(rs) ==
    IF rs = <<>> THEN 0 ELSE BatchLen(Head(rs)) + RecordsReturned(Tail(rs))

\* C39: when the worker ends without a shutdown request, _save_batch has
\* been given as many records as the directory scans returned, and when no
\* write failed every one of them is in the files table.
C39_EveryRecordIsFlushed ==
    (scan_pc = "exited" /\ exit_status = "0" /\ ~shutdown) =>
        /\ files_scanned = RecordsReturned(results)
        /\ save_errors = 0 =>
              \A k \in DOMAIN results : \A i \in DOMAIN results[k] :
                 \E row \in files_table : row.path = results[k][i].path

\* A run that flushed a full batch inside the loop and a last, smaller one.
C39_Witness ==
    /\ scan_pc = "exited"
    /\ exit_status = "0"
    /\ ~shutdown
    /\ save_errors = 0
    /\ files_scanned > BATCH_SIZE
    /\ batch # <<>>
    /\ BatchLen(batch) < BATCH_SIZE

=============================================================================
